---- MODULE Spec2Model ----
(***************************************************************************)
(* Generation orchestration layer of the coloring-book studio.             *)
(*                                                                         *)
(*   SpecRetry : withRetry of src/services/gemini.ts (lines 8-34), one     *)
(*               call, maxRetries drawn at Init, the operation's outcomes  *)
(*               drawn at every invocation.                                *)
(*   Spec      : the first App of src/App.tsx (lines 54-251): planning,    *)
(*               startImageGeneration, processQueue, navigate.  A remote   *)
(*               call made through withRetry is one call in flight that    *)
(*               settles with withRetry's outcome.                         *)
(*                                                                         *)
(* Scheduling is the browser's: one thread, run-to-completion tasks.  An   *)
(* action is one task together with the microtasks it triggers (promise    *)
(* continuations); the suspension points are the remote calls and the      *)
(* timers.                                                                 *)
(***************************************************************************)
EXTENDS Integers, Sequences, FiniteSets, TLC

VARIABLES
    \* ---- withRetry, one call (SpecRetry) ----
    rt,                     \* the call's frame: maxRetries, i, lastError, position
    rtLog,                  \* history: the outcome of every invocation of operation
    \* ---- React state of App (src/App.tsx 55-61) ----
    view, step, topic, pages, coverImage,   \* state: GenerationState
    error,                  \* useState error
    loading,                \* useState loading
    isGeneratingImagesRef,  \* useRef(false).current
    \* ---- calls in flight ----
    planCalls,              \* handleGeneratePlan invocations awaiting generateBookPlan
    runs,                   \* processQueue invocations, by run number
    \* ---- counters and history ----
    nRuns,                  \* processQueue invocations so far
    nPagesPlanned,          \* pages created by all the plans so far
    navigated,              \* history: navigate has been called
    \* ---- the other variants, one record each ----
    retryApp,               \* src/App.tsx second variant: page list, retries
    turbo,                  \* src/unnamed/part_003: page list, queue, retries
    studio,                 \* src/unnamed/part_002: page list, batch, calls
    pair,                   \* two withRetry calls of one batch (SpecPair)
    quad,                   \* src/vite.config.ts: page list, queue (SpecQuad)
    rt1,                    \* src/unnamed/part_001: one withRetry call
    ratio,                  \* getClosestAspectRatio: input and result
    exporter                \* handleDownloadZip, generatePDF: input and output

vars == <<rt, rtLog, view, step, topic, pages, coverImage, error, loading,
          isGeneratingImagesRef, planCalls, runs, nRuns, nPagesPlanned, navigated,
          retryApp, turbo, studio, pair, quad, rt1, ratio, exporter>>

moreVars == <<quad, rt1, ratio, exporter>>
variantVars == <<retryApp, turbo, studio, pair, moreVars>>

retryVars == <<rt, rtLog>>
appVars == <<view, step, topic, pages, coverImage, error, loading,
             isGeneratingImagesRef, planCalls, runs, nRuns, nPagesPlanned, navigated>>

----------------------------------------------------------------------------
(* Bounds *)

MaxRetriesBound == 3    \* SpecRetry: maxRetries ranges over 0..MaxRetriesBound
MaxTotalPages == 3      \* pages created by all the plans of one behaviour
MaxRuns == 1            \* startImageGeneration clicks in one behaviour
MaxPlanCalls == 2       \* handleGeneratePlan invocations in flight at once
GridPages == 3          \* pages of the page list in the specifications of
                        \* the other variants
MaxRetryClicks == 2     \* SpecRetryPage: Retry clicks on one page
MaxRounds == 2          \* SpecTurbo: iterations of the while loop of one run
QuadPages == 9           \* SpecQuad: pages of the plan
MaxHalfInches == 32     \* SpecRatio: width and height, in half inches
MaxRatioCalls == 2      \* SpecRatio: calls with the same input
MaxBatches == 1         \* SpecStudio: handleGenerateAllPages invocations
MaxRestarts == 2        \* SpecStudioRestart: handleGenerateAllPages invocations

----------------------------------------------------------------------------
(* Failures thrown by a remote call.                                       *)
(*                                                                         *)
(* A text is modelled by the set of the fragments it contains that some    *)
(* test of the program looks for; includes(x) is membership.  An error is  *)
(*   kind       "Error"  : an Error instance (message is not enumerable)   *)
(*              "object" : a plain object (message is enumerable)          *)
(*              "string" : a thrown string (the text is in message)        *)
(*   status     status || code || error.code, 0 when the error has none    *)
(*   hasMessage the error has a non-empty message property                 *)
(*   message    the fragments of its text                                  *)

Fragments == {"429", "503", "quota", "Quota", "overloaded", "RESOURCE_EXHAUSTED",
              "Server Error"}

toLowerCase(f) ==
    CASE f = "Quota" -> "quota"
      [] f = "RESOURCE_EXHAUSTED" -> "resource_exhausted"
      [] f = "Server Error" -> "server error"
      [] OTHER -> f

LowerText(text) == {toLowerCase(f) : f \in text}

includes(text, f) == f \in text

Undefined == [kind |-> "undefined", status |-> 0, hasMessage |-> FALSE, message |-> {}]

\* @google/genai ApiError: Error with status, message = the JSON body
ApiError429 == [kind |-> "Error", status |-> 429, hasMessage |-> TRUE,
                message |-> {"429", "quota", "RESOURCE_EXHAUSTED"}]
\* Error without status whose text reports the quota ("got status: 429 ...")
ClientError429 == [kind |-> "Error", status |-> 0, hasMessage |-> TRUE,
                   message |-> {"429", "quota", "RESOURCE_EXHAUSTED"}]
QuotaTextError == [kind |-> "Error", status |-> 0, hasMessage |-> TRUE,
                   message |-> {"Quota"}]
ApiError503 == [kind |-> "Error", status |-> 503, hasMessage |-> TRUE,
                message |-> {"503", "overloaded"}]
OverloadedText == [kind |-> "string", status |-> 0, hasMessage |-> FALSE,
                   message |-> {"overloaded"}]
\* the raw response body thrown as a plain object
QuotaBody == [kind |-> "object", status |-> 429, hasMessage |-> TRUE,
              message |-> {"RESOURCE_EXHAUSTED"}]
\* Error without status whose text carries the status name only
ExhaustedText == [kind |-> "Error", status |-> 0, hasMessage |-> TRUE,
                  message |-> {"RESOURCE_EXHAUSTED"}]
\* HTTP 429 reported by its status, with the status text as message
TooManyRequests == [kind |-> "Error", status |-> 429, hasMessage |-> TRUE,
                    message |-> {}]
\* HTTP 403 whose text reports the quota
QuotaForbidden == [kind |-> "Error", status |-> 403, hasMessage |-> TRUE,
                   message |-> {"Quota"}]
\* any failure that mentions neither quota nor overload (bad prompt, auth, ...)
PlainError == [kind |-> "Error", status |-> 0, hasMessage |-> TRUE, message |-> {}]
BadRequest == [kind |-> "object", status |-> 400, hasMessage |-> TRUE, message |-> {}]

ErrorShapes == {ApiError429, ClientError429, QuotaTextError, ApiError503,
                OverloadedText, QuotaBody, ExhaustedText, TooManyRequests,
                QuotaForbidden, PlainError, BadRequest}

\* The classes of section 4.1, by shape: status 429 or a text that reports
\* 429 or the quota; status 503 or a text that reports 503 or overload
RateLimitedShapes == {ApiError429, ClientError429, QuotaTextError, QuotaBody,
                      TooManyRequests, QuotaForbidden}
OverloadedShapes == {ApiError503, OverloadedText}
OtherShapes == {ExhaustedText, PlainError, BadRequest}
\* the failures that report an exhausted quota in any way
QuotaShapes == RateLimitedShapes \cup {ExhaustedText}

StatusDigits(status) ==
    CASE status = 429 -> {"429"}
      [] status = 503 -> {"503"}
      [] OTHER -> {}

\* JSON.stringify(err): own enumerable properties only
JSON_stringify(err) ==
    CASE err.kind = "string" -> err.message
      [] err.kind = "object" -> err.message \cup StatusDigits(err.status)
      [] OTHER -> StatusDigits(err.status)

----------------------------------------------------------------------------
(* withRetry, src/services/gemini.ts 8-34 *)

errorCode(err) == err.status

errorMessage(err) ==
    LowerText(IF err.hasMessage THEN err.message ELSE JSON_stringify(err))

\* line 18 without the textual fallback
isRateLimited_CodeOnly(err) == errorCode(err) = 429

isRateLimited(err) ==
    \/ errorCode(err) = 429
    \/ includes(errorMessage(err), "429")
    \/ includes(errorMessage(err), "quota")

\* line 19 without the textual fallback
isOverloaded_CodeOnly(err) == errorCode(err) = 503

isOverloaded(err) ==
    \/ errorCode(err) = 503
    \/ includes(errorMessage(err), "503")
    \/ includes(errorMessage(err), "overloaded")

\* line 22 with the bound off by one
AttemptsRemain_OffByOne(i, maxRetries) == i < maxRetries - 2

\* line 22 without its test
AttemptsRemain_Always(i, maxRetries) == TRUE

\* line 22
AttemptsRemain(i, maxRetries) == i < maxRetries - 1

\* the catch block without the classification test of line 21
withRetryCatch_RetryAll(i, maxRetries, err) ==
    IF AttemptsRemain(i, maxRetries) THEN "retry" ELSE "throw"

\* the catch block, lines 13-30: "retry" (sleep, then continue) or "throw"
withRetryCatch(i, maxRetries, err) ==
    IF (isRateLimited(err) \/ isOverloaded(err)) /\ AttemptsRemain(i, maxRetries)
    THEN "retry" ELSE "throw"

\* line 8: initialDelay = 3000
DefaultInitialDelay == 3000

\* the values of initialDelay of the calls under study: the default and the
\* least positive one
InitialDelays == {1, DefaultInitialDelay}

\* delays are counted in units of 1 / DelayScale ms, so that
\* initialDelay * 1.5^i is a whole number for every i the loop reaches
DelayScale == 2 ^ MaxRetriesBound

\* Math.pow with a factor of 1
Math_pow_Flat(i) == DelayScale

\* line 24: Math.pow(1.5, i), in units of 1 / DelayScale
Math_pow(i) == (3 ^ i) * (2 ^ (MaxRetriesBound - i))

\* line 24: Math.random() * 1000, a value of [0, 1000) ms: the least, the
\* next, the middle and the greatest in units of 1 / DelayScale ms
Jitters == {0, 1, 500 * DelayScale, 1000 * DelayScale - 1}

\* line 24: the two terms of the delay, in units of 1 / DelayScale ms
Backoff(initialDelay, i, jitter) ==
    [base |-> initialDelay * Math_pow(i), jitter |-> jitter]

\* what an invocation of operation yields
\* "image": a response with an inline image part; "noimage": one without
Values == {"image", "noimage"}
Ok(v) == [ok |-> TRUE, value |-> v, err |-> Undefined]
Fail(e) == [ok |-> FALSE, value |-> "", err |-> e]
Outcomes == {Ok(v) : v \in Values} \cup {Fail(e) : e \in ErrorShapes}

\* the frame of one call; pc: "await" operation in flight, "sleep" backoff,
\* "returned", "thrown"
RtFrame(maxRetries, i, pc, lastError, result, thrown, sleeps) ==
    [maxRetries |-> maxRetries, i |-> i, pc |-> pc, lastError |-> lastError,
     result |-> result, thrown |-> thrown, sleeps |-> sleeps,
     initialDelay |-> DefaultInitialDelay,
     \* history: the delay of each sleep, as the two terms of line 24
     delays |-> <<>>]

\* entering the loop at index i (line 10): invoke operation, or fall out of
\* the loop and throw lastError (line 33)
RtLoop(f, i) ==
    IF i < f.maxRetries
    THEN [f EXCEPT !.i = i, !.pc = "await"]
    ELSE [f EXCEPT !.i = i, !.pc = "thrown", !.thrown = f.lastError]

RtCall(maxRetries) ==
    RtLoop(RtFrame(maxRetries, 0, "await", Undefined, "", Undefined, 0), 0)

RtIdle == RtFrame(0, 0, "idle", Undefined, "", Undefined, 0)

\* the invocation in flight settles with outcome o (lines 12-30)
RtSettle(o) ==
    /\ rt.pc = "await"
    /\ rtLog' = Append(rtLog, o)
    /\ IF o.ok
       THEN rt' = [rt EXCEPT !.pc = "returned", !.result = o.value]
       ELSE IF withRetryCatch(rt.i, rt.maxRetries, o.err) = "retry"
            THEN \E jitter \in Jitters :
                    rt' = [rt EXCEPT !.lastError = o.err, !.pc = "sleep",
                                     !.sleeps = @ + 1,
                                     !.delays = Append(@, Backoff(rt.initialDelay,
                                                                  rt.i, jitter))]
            ELSE rt' = [rt EXCEPT !.lastError = o.err, !.pc = "thrown",
                                  !.thrown = o.err]
    /\ UNCHANGED <<appVars, variantVars>>

\* the backoff timer fires (line 26), continue (line 27), i++ (line 10)
RtWake ==
    /\ rt.pc = "sleep"
    /\ rt' = RtLoop(rt, rt.i + 1)
    /\ UNCHANGED <<rtLog, appVars, variantVars>>

RetryNext ==
    \/ \E o \in Outcomes : RtSettle(o)
    \/ RtWake

----------------------------------------------------------------------------
(* React state, src/App.tsx 44-61 and src/types.ts 9-41 *)

ViewType == {"home", "login", "register", "vip", "canva"}
\* the targets navigate is drawn from: every view but home behaves alike
NavTargets == {"home", "vip"}
Steps == {"input", "planning", "generating", "review"}
Topics == {"", "cats"}

NoImage == "none"
NoCover == "none"
DataUri == "data:image/png;base64"

NoError == [set |-> FALSE, isQuota |-> FALSE]

\* PageDefinition; id is `page-${index}-${Date.now()}` (line 122): the number
\* of pages created before the plan stands for the timestamp
Page(now, idx) ==
    [id |-> <<now, idx>>, prompt |-> idx, status |-> "pending", imageUrl |-> NoImage]

Terminal == {"completed", "failed"}

\* line 155
BATCH_SIZE == 2

\* the image payload, or the throw of src/services/gemini.ts 112-118
NoImageDataError == PlainError

\* handleError, lines 75-95: the isQuota flag it publishes
handleErrorIsQuota(err) ==
    IF err.kind = "undefined" THEN FALSE   \* err.message throws, caught at 88
    ELSE LET errStr == IF err.kind = "string" THEN err.message
                       ELSE IF err.hasMessage THEN err.message
                       ELSE JSON_stringify(err)
         IN  \/ includes(errStr, "RESOURCE_EXHAUSTED")
             \/ includes(errStr, "429")
             \/ includes(errStr, "quota")

handleErrorState(err) == [set |-> TRUE, isQuota |-> handleErrorIsQuota(err)]

\* line 204 with a test every failure passes
BreakerMatches_Any(err) == TRUE

\* line 204: the circuit breaker's test
BreakerMatches(err) ==
    \/ includes(JSON_stringify(err), "429")
    \/ includes(JSON_stringify(err), "RESOURCE_EXHAUSTED")

----------------------------------------------------------------------------
(* processQueue, src/App.tsx 154-234: one record per invocation *)

\* a page's generateColoringPage call: "none" or "await" (in flight, the
\* retries of its withRetry included: SpecRetry covers that loop)
NoCall == [pc |-> "none"]

IdleRun ==
    [pc |-> "idle", pagesToProcess |-> <<>>, batch |-> {}, call |-> <<>>,
     cover |-> "none",
     \* history
     round |-> <<>>, terms |-> <<>>, rounds |-> 0,
     quotaFailed |-> FALSE,  \* a page failed with a Rate-limited error
     quotaSeen |-> FALSE,    \* a page failed with an error that reports the quota
     breaker |-> FALSE,      \* line 204 matched
     cancelled |-> FALSE,    \* the flag was cleared from outside the run
                             \* while the run was in its loop
     navigated |-> FALSE]    \* navigate was called while the run was in
                             \* its loop

\* the first n members of a set of indices (filter(...).slice(0, n), line 171)
FirstN(S, n) == {k \in S : Cardinality({j \in S : j < k}) < n}

PendingIdx(ptp) == {k \in DOMAIN ptp : ptp[k].status = "pending"}

\* line 170 without the cancel flag
LoopCondition_NoFlag(ptp, flag) == PendingIdx(ptp) # {}

\* line 170
LoopCondition(ptp, flag) == PendingIdx(ptp) # {} /\ flag

\* line 171 without the slice
SelectBatch_All(ptp) == PendingIdx(ptp)

\* line 171
SelectBatch(ptp) == FirstN(PendingIdx(ptp), BATCH_SIZE)

\* lines 174-177 without the batch filter
MarkGenerating_All(pgs, ids) ==
    [k \in DOMAIN pgs |-> [pgs[k] EXCEPT !.status = "generating"]]

\* lines 174-177
MarkGenerating(pgs, ids) ==
    [k \in DOMAIN pgs |->
        IF pgs[k].id \in ids THEN [pgs[k] EXCEPT !.status = "generating"] ELSE pgs[k]]

\* lines 189-192 without the image
MarkCompleted_NoImage(pgs, id, img) ==
    [k \in DOMAIN pgs |->
        IF pgs[k].id = id THEN [pgs[k] EXCEPT !.status = "completed"] ELSE pgs[k]]

\* lines 189-192
MarkCompleted(pgs, id, img) ==
    [k \in DOMAIN pgs |->
        IF pgs[k].id = id THEN [pgs[k] EXCEPT !.status = "completed", !.imageUrl = img]
        ELSE pgs[k]]

\* line 199 with the failed page moved to the end of the list
MarkFailed_ToEnd(pgs, id) ==
    SelectSeq(pgs, LAMBDA p : p.id # id)
    \o [k \in 1..Len(SelectSeq(pgs, LAMBDA p : p.id = id)) |->
           [SelectSeq(pgs, LAMBDA p : p.id = id)[k] EXCEPT !.status = "failed"]]

\* line 199
MarkFailed(pgs, id) ==
    [k \in DOMAIN pgs |->
        IF pgs[k].id = id THEN [pgs[k] EXCEPT !.status = "failed"] ELSE pgs[k]]

\* line 227 counting completed pages only
allDone_CompletedOnly(pgs) == \A k \in DOMAIN pgs : pgs[k].status = "completed"

\* line 227
allDone(pgs) == \A k \in DOMAIN pgs : pgs[k].status \in Terminal

\* the invocation has returned: its locals are gone (breaker is kept as history)
DoneRun(run) == [IdleRun EXCEPT !.pc = "done", !.breaker = run.breaker]

\* lines 225-233; the result is the run, the page list, the flag and the step
EndOfQueue(run, pgs, flag, stp) ==
    [run |-> DoneRun(run),
     pages |-> pgs,
     flag |-> FALSE,
     step |-> IF allDone(pgs) /\ stp = "generating" THEN "review" ELSE stp]

\* lines 225-233 without the await of line 223
AwaitCover_NoWait(run, pgs, flag, stp) == EndOfQueue(run, pgs, flag, stp)

\* line 223: await coverPromise
AwaitCover(run, pgs, flag, stp) ==
    IF run.cover = "settled"
    THEN EndOfQueue(run, pgs, flag, stp)
    ELSE [run |-> [run EXCEPT !.pc = "awaitCover"], pages |-> pgs,
          flag |-> flag, step |-> stp]

\* lines 171-184: mark the batch generating and send its pages
DispatchBatch(run, pgs, flag, stp) ==
    LET ptp == run.pagesToProcess
        batch == SelectBatch(ptp)
    IN  [run |-> [run EXCEPT
                    !.pc = "inflight",
                    !.batch = batch,
                    !.pagesToProcess =
                        [k \in DOMAIN ptp |->
                            IF k \in batch THEN [ptp[k] EXCEPT !.status = "generating"]
                            ELSE ptp[k]],
                    !.call = [k \in DOMAIN ptp |->
                                IF k \in batch THEN [pc |-> "await"]
                                ELSE run.call[k]],
                    !.rounds = @ + 1,
                    !.round = [k \in DOMAIN ptp |->
                                IF k \in batch THEN run.rounds + 1 ELSE run.round[k]]],
         pages |-> MarkGenerating(pgs, {ptp[k].id : k \in batch}),
         flag |-> flag,
         step |-> stp]

\* the head of the while loop, line 170, and what follows synchronously
LoopHead(run, pgs, flag, stp) ==
    IF LoopCondition(run.pagesToProcess, flag)
    THEN DispatchBatch(run, pgs, flag, stp)
    ELSE AwaitCover(run, pgs, flag, stp)

\* line 184 with Promise.race: the first page function to settle ends the wait
BatchSettled_Any(run) == \E k \in run.batch : run.call[k].pc = "none"

\* Promise.all of line 184 has every page function settled
BatchSettled(run) == \A k \in run.batch : run.call[k].pc = "none"

\* line 220 removed: the loop's next iteration follows at once
Join_NoDelay(run) ==
    IF BatchSettled(run)
    THEN IF PendingIdx(run.pagesToProcess) # {}
         THEN DispatchBatch(run, <<>>, TRUE, "generating").run
         ELSE [run EXCEPT !.pc = "pacing"]
    ELSE run

\* line 220 follows once the batch has settled
Join(run) == IF BatchSettled(run) THEN [run EXCEPT !.pc = "pacing"] ELSE run

\* lines 164-166 with the breaker's test applied to the cover's failure
CoverCatch_Breaker(err, flag) == flag /\ ~BreakerMatches(err)

\* lines 164-166: the catch of the cover promise logs the failure; the
\* result is the cancel flag, which it leaves alone
CoverCatch(err, flag) == flag

Runs == 1..MaxRuns

\* history: isGeneratingImagesRef.current = false (lines 94, 103, 206, 225)
\* takes effect on every run in its loop; r is the run that clears the flag
\* itself, 0 when the flag is cleared by handleError of a plan or by navigate
CancelOthers(rs, r, cleared) ==
    [q \in DOMAIN rs |->
        IF q # r /\ cleared /\ rs[q].pc \in {"inflight", "pacing"}
        THEN [rs[q] EXCEPT !.cancelled = TRUE]
        ELSE rs[q]]

----------------------------------------------------------------------------
(* Actions of the App *)

\* the topic input, onChange
SetTopic(t) ==
    /\ view = "home" /\ step = "input"
    /\ t # topic
    /\ topic' = t
    /\ UNCHANGED <<retryVars, variantVars, view, step, pages, coverImage, error, loading,
                   isGeneratingImagesRef, planCalls, runs, nRuns, nPagesPlanned, navigated>>

\* handleGeneratePlan up to its await, lines 108-115
HandleGeneratePlan ==
    /\ view = "home" /\ step = "input"
    /\ topic # ""
    /\ planCalls < MaxPlanCalls
    /\ loading' = TRUE
    /\ error' = NoError
    /\ planCalls' = planCalls + 1
    /\ UNCHANGED <<retryVars, variantVars, view, step, topic, pages, coverImage,
                   isGeneratingImagesRef, runs, nRuns, nPagesPlanned, navigated>>

\* lines 117-133 and 137 without the test of line 118
PlanReturns_NoCheck(n) ==
    /\ planCalls > 0
    /\ nPagesPlanned + n <= MaxTotalPages
    /\ nPagesPlanned' = nPagesPlanned + n
    /\ planCalls' = planCalls - 1
    /\ loading' = FALSE
    /\ step' = "planning"
    /\ pages' = [k \in 1..n |-> Page(nPagesPlanned, k)]
    /\ UNCHANGED <<error, isGeneratingImagesRef, runs>>
    /\ UNCHANGED <<retryVars, variantVars, view, topic, coverImage, nRuns, navigated>>

\* generateBookPlan returns n pages: lines 117-133 and 137
PlanReturns(n) ==
    /\ planCalls > 0
    /\ nPagesPlanned + n <= MaxTotalPages
    /\ nPagesPlanned' = nPagesPlanned + n
    /\ planCalls' = planCalls - 1
    /\ loading' = FALSE
    /\ IF n = 0
       THEN \* line 118 throws, handleError at 135
            /\ error' = handleErrorState(PlainError)
            /\ isGeneratingImagesRef' = FALSE
            /\ runs' = CancelOthers(runs, 0, isGeneratingImagesRef)
            /\ UNCHANGED <<step, pages>>
       ELSE /\ step' = "planning"
            /\ pages' = [k \in 1..n |-> Page(nPagesPlanned, k)]
            /\ UNCHANGED <<error, isGeneratingImagesRef, runs>>
    /\ UNCHANGED <<retryVars, variantVars, view, topic, coverImage, nRuns, navigated>>

\* generateBookPlan throws: lines 134-137
PlanThrows(err) ==
    /\ planCalls > 0
    /\ planCalls' = planCalls - 1
    /\ loading' = FALSE
    /\ error' = handleErrorState(err)
    /\ isGeneratingImagesRef' = FALSE
    /\ runs' = CancelOthers(runs, 0, isGeneratingImagesRef)
    /\ UNCHANGED <<retryVars, variantVars, view, step, topic, pages, coverImage,
                   nRuns, nPagesPlanned, navigated>>

\* startImageGeneration, lines 141-152, and processQueue up to its first await
StartImageGeneration ==
    /\ view = "home" /\ step = "planning"
    /\ nRuns < MaxRuns
    /\ LET r == nRuns + 1
           n == Len(pages)
           run == [IdleRun EXCEPT
                     !.pagesToProcess = pages,
                     !.call = [k \in 1..n |-> NoCall],
                     !.cover = "inflight",
                     !.round = [k \in 1..n |-> 0],
                     !.terms = [k \in 1..n |-> 0]]
           res == LoopHead(run, pages, TRUE, "generating")
       IN  /\ runs' = [runs EXCEPT ![r] = res.run]
           /\ pages' = res.pages
           /\ isGeneratingImagesRef' = res.flag
           /\ step' = res.step
           /\ nRuns' = r
    /\ UNCHANGED <<retryVars, variantVars, view, topic, coverImage, error, loading, planCalls,
                   nPagesPlanned, navigated>>

\* generateColoringPage returns the image: lines 187-196
PageCompletes(r, k) ==
    /\ runs[r].pc = "inflight"
    /\ k \in DOMAIN runs[r].call
    /\ runs[r].call[k].pc = "await"
    /\ LET run == runs[r]
           id == run.pagesToProcess[k].id
       IN  /\ pages' = MarkCompleted(pages, id, DataUri)
           /\ runs' = [runs EXCEPT ![r] =
                        Join([run EXCEPT !.pagesToProcess[k].status = "completed",
                                         !.call[k] = NoCall,
                                         !.terms[k] = @ + 1])]
    /\ UNCHANGED <<retryVars, variantVars, view, step, topic, coverImage, error, loading,
                   isGeneratingImagesRef, planCalls, nRuns, nPagesPlanned, navigated>>

\* lines 197-208 with the breaker aborting the other requests of the batch
PageFails_Abort(r, k, err) ==
    /\ runs[r].pc = "inflight"
    /\ k \in DOMAIN runs[r].call
    /\ runs[r].call[k].pc = "await"
    /\ LET run == runs[r]
           id == run.pagesToProcess[k].id
           trip == BreakerMatches(err)
       IN  /\ pages' = MarkFailed(pages, id)
           /\ runs' = [CancelOthers(runs, r, trip /\ isGeneratingImagesRef)
                        EXCEPT ![r] =
                        Join([run EXCEPT !.pagesToProcess[k].status = "failed",
                                         !.call = IF trip
                                                  THEN [j \in DOMAIN @ |-> NoCall]
                                                  ELSE [@ EXCEPT ![k] = NoCall],
                                         !.terms[k] = @ + 1,
                                         !.quotaFailed = @ \/ err \in RateLimitedShapes,
                                         !.quotaSeen = @ \/ err \in QuotaShapes,
                                         !.breaker = @ \/ trip])]
           /\ IF trip
              THEN /\ isGeneratingImagesRef' = FALSE
                   /\ error' = handleErrorState(err)
                   /\ loading' = FALSE
              ELSE UNCHANGED <<isGeneratingImagesRef, error, loading>>
    /\ UNCHANGED <<retryVars, variantVars, view, step, topic, coverImage, planCalls,
                   nRuns, nPagesPlanned, navigated>>

\* generateColoringPage throws err: lines 197-208
PageFails(r, k, err) ==
    /\ runs[r].pc = "inflight"
    /\ k \in DOMAIN runs[r].call
    /\ runs[r].call[k].pc = "await"
    /\ LET run == runs[r]
           id == run.pagesToProcess[k].id
           trip == BreakerMatches(err)
       IN  /\ pages' = MarkFailed(pages, id)
           /\ runs' = [CancelOthers(runs, r, trip /\ isGeneratingImagesRef)
                        EXCEPT ![r] =
                        Join([run EXCEPT !.pagesToProcess[k].status = "failed",
                                         !.call[k] = NoCall,
                                         !.terms[k] = @ + 1,
                                         !.quotaFailed = @ \/ err \in RateLimitedShapes,
                                         !.quotaSeen = @ \/ err \in QuotaShapes,
                                         !.breaker = @ \/ trip])]
           /\ IF trip
              THEN /\ isGeneratingImagesRef' = FALSE
                   /\ error' = handleErrorState(err)
                   /\ loading' = FALSE
              ELSE UNCHANGED <<isGeneratingImagesRef, error, loading>>
    /\ UNCHANGED <<retryVars, variantVars, view, step, topic, coverImage, planCalls,
                   nRuns, nPagesPlanned, navigated>>

\* a page's request settles with outcome o of withRetry (gemini.ts 106-110);
\* a response without image data makes generateColoringPage throw (line 118)
PageSettles(r, k, o) ==
    IF o.ok
    THEN IF o.value = "image" THEN PageCompletes(r, k)
         ELSE PageFails(r, k, NoImageDataError)
    ELSE PageFails(r, k, o.err)

\* the pacing timer of line 220 fires: back to the head of the loop
PacingDone(r) ==
    /\ runs[r].pc = "pacing"
    /\ LET res == LoopHead(runs[r], pages, isGeneratingImagesRef, step)
       IN  /\ runs' = [CancelOthers(runs, r, isGeneratingImagesRef /\ ~res.flag)
                        EXCEPT ![r] = res.run]
           /\ pages' = res.pages
           /\ isGeneratingImagesRef' = res.flag
           /\ step' = res.step
    /\ UNCHANGED <<retryVars, variantVars, view, topic, coverImage, error, loading, planCalls,
                   nRuns, nPagesPlanned, navigated>>

\* generateCoverImage settles with outcome o of withRetry: lines 159-166
\* (a response without image data throws, gemini.ts 135), and line 223 when
\* the run waits for the cover
CoverSettles(r, o) ==
    /\ runs[r].cover = "inflight"
    /\ LET fails == ~(o.ok /\ o.value = "image")
           err == IF o.ok THEN NoImageDataError ELSE o.err
           flag == IF fails THEN CoverCatch(err, isGeneratingImagesRef)
                   ELSE isGeneratingImagesRef
           run == [runs[r] EXCEPT !.cover = "settled"]
           res == IF run.pc = "awaitCover"
                  THEN EndOfQueue(run, pages, flag, step)
                  ELSE [run |-> run, pages |-> pages, flag |-> flag, step |-> step]
       IN  /\ coverImage' = IF fails THEN coverImage ELSE DataUri
           /\ runs' = [CancelOthers(runs, r, isGeneratingImagesRef /\ ~res.flag)
                        EXCEPT ![r] = res.run]
           /\ pages' = res.pages
           /\ isGeneratingImagesRef' = res.flag
           /\ step' = res.step
    /\ UNCHANGED <<retryVars, variantVars, view, topic, error, loading, planCalls,
                   nRuns, nPagesPlanned, navigated>>

\* history: navigate is called; it is noted on every run in its loop
NoteNavigate(rs) ==
    [q \in DOMAIN rs |->
        IF rs[q].pc \in {"inflight", "pacing"}
        THEN [rs[q] EXCEPT !.navigated = TRUE]
        ELSE rs[q]]

\* navigate, lines 97-106
Navigate(v) ==
    /\ IF v = "home"
       THEN /\ view' = "home" /\ step' = "input" /\ topic' = ""
            /\ pages' = <<>> /\ coverImage' = NoCover
            /\ runs' = NoteNavigate(runs)
            /\ UNCHANGED isGeneratingImagesRef
       ELSE /\ view' = v
            /\ isGeneratingImagesRef' = FALSE
            /\ runs' = NoteNavigate(CancelOthers(runs, 0, isGeneratingImagesRef))
            /\ UNCHANGED <<step, topic, pages, coverImage>>
    /\ error' = NoError
    /\ navigated' = TRUE
    /\ UNCHANGED <<retryVars, variantVars, loading, planCalls, nRuns, nPagesPlanned>>

\* the error banner's close button
DismissError ==
    /\ error.set
    /\ error' = NoError
    /\ UNCHANGED <<retryVars, variantVars, view, step, topic, pages, coverImage, loading,
                   isGeneratingImagesRef, planCalls, runs, nRuns, nPagesPlanned, navigated>>

----------------------------------------------------------------------------
(* The other variants at rest *)

RetryAppIdle == [pages |-> <<>>, calls |-> <<>>, clicks |-> <<>>]
TurboIdle ==
    [pages |-> <<>>, step |-> "input", concurrency |-> "safe", flag |-> FALSE,
     error |-> [set |-> FALSE, isQuota |-> FALSE], cover |-> "none",
     pc |-> "idle", pagesToProcess |-> <<>>, batch |-> {}, inflight |-> {},
     round |-> 0, sent |-> <<>>, retries |-> <<>>]
StudioIdle ==
    [pages |-> <<>>, isBatchGenerating |-> FALSE, stopBatchRef |-> FALSE,
     error |-> [set |-> FALSE, isQuota |-> FALSE], singles |-> <<>>,
     batches |-> <<>>]
PairIdle ==
    [frames |-> <<>>, status |-> <<>>, imageUrl |-> <<>>, flag |-> FALSE,
     error |-> [set |-> FALSE, isQuota |-> FALSE]]

QuadIdle ==
    [pages |-> <<>>, view |-> "home", step |-> "input", flag |-> FALSE,
     error |-> [set |-> FALSE, isQuota |-> FALSE], cover |-> "none",
     pc |-> "idle", pagesToProcess |-> <<>>, batch |-> {}, inflight |-> {},
     log |-> <<>>, cancelled |-> FALSE, breaker |-> FALSE]
Rt1Idle ==
    [retries |-> 0, i |-> 0, pc |-> "idle", lastError |-> Undefined,
     result |-> "", thrown |-> Undefined, sleeps |-> 0, log |-> <<>>]
RatioIdle == [width |-> 0, height |-> 0, results |-> <<>>, pc |-> "idle"]
ExporterIdle ==
    [pages |-> <<>>, coverImage |-> "none", zip |-> <<>>, pdf |-> <<>>,
     zipped |-> FALSE, printed |-> FALSE, pc |-> "idle"]

\* the variables of the specifications that are not running
MoreIdle ==
    /\ quad = QuadIdle /\ rt1 = Rt1Idle
    /\ ratio = RatioIdle /\ exporter = ExporterIdle

AppInit ==
    /\ view = "home" /\ step = "input" /\ topic = ""
    /\ pages = <<>> /\ coverImage = NoCover
    /\ error = NoError /\ loading = FALSE
    /\ isGeneratingImagesRef = FALSE
    /\ planCalls = 0
    /\ runs = [r \in Runs |-> IdleRun]
    /\ nRuns = 0 /\ nPagesPlanned = 0
    /\ navigated = FALSE

Init ==
    /\ AppInit /\ rt = RtIdle /\ rtLog = <<>>
    /\ retryApp = RetryAppIdle /\ turbo = TurboIdle
    /\ studio = StudioIdle /\ pair = PairIdle
    /\ MoreIdle

Next ==
    \/ \E t \in Topics : SetTopic(t)
    \/ HandleGeneratePlan
    \/ \E n \in 0..MaxTotalPages : PlanReturns(n)
    \/ \E e \in ErrorShapes : PlanThrows(e)
    \/ StartImageGeneration
    \/ \E r \in Runs, k \in 1..MaxTotalPages, o \in Outcomes : PageSettles(r, k, o)
    \/ \E r \in Runs : PacingDone(r)
    \/ \E r \in Runs, o \in Outcomes : CoverSettles(r, o)
    \/ \E v \in NavTargets : Navigate(v)
    \/ DismissError

Spec == Init /\ [][Next]_vars

RetryInit ==
    /\ AppInit
    /\ \E m \in 0..MaxRetriesBound, d \in InitialDelays :
          rt = [RtCall(m) EXCEPT !.initialDelay = d]
    /\ rtLog = <<>>
    /\ retryApp = RetryAppIdle /\ turbo = TurboIdle
    /\ studio = StudioIdle /\ pair = PairIdle
    /\ MoreIdle

SpecRetry == RetryInit /\ [][RetryNext]_vars

----------------------------------------------------------------------------
(* Properties of withRetry (SpecRetry) *)

FailedWith(o, shapes) == ~o.ok /\ o.err \in shapes

AllFailedWith(shapes) == \A n \in DOMAIN rtLog : FailedWith(rtLog[n], shapes)

\* C4: with maxRetries >= 1, when every invocation fails with a Rate-limited
\* error, withRetry throws only after exactly maxRetries invocations, and the
\* error it throws is the error of the last invocation.
C4_RetryCeiling ==
    (rt.maxRetries >= 1 /\ AllFailedWith(RateLimitedShapes)) =>
        /\ Len(rtLog) <= rt.maxRetries
        /\ rt.pc \in {"await", "sleep", "thrown"}
        /\ rt.pc = "thrown" <=> Len(rtLog) = rt.maxRetries
        /\ rt.pc = "thrown" => rt.thrown = rtLog[Len(rtLog)].err

\* three Rate-limited failures of different shapes, the last one thrown
C4_Witness ==
    /\ rt.maxRetries = 3 /\ rt.pc = "thrown" /\ Len(rtLog) = 3
    /\ AllFailedWith(RateLimitedShapes)
    /\ rtLog[1].err = ApiError429 /\ rtLog[2].err = QuotaTextError
    /\ rtLog[3].err = ClientError429
    /\ rt.thrown = ClientError429

Retryable == RateLimitedShapes \cup OverloadedShapes

\* C5: when operation fails k times with a retryable error and then succeeds,
\* k < maxRetries, it is invoked exactly k + 1 times: withRetry does not give
\* up before the success, returns the value of the successful invocation and
\* invokes nothing afterwards.
C5_SuccessShortCircuit ==
    /\ (AllFailedWith(Retryable) /\ Len(rtLog) < rt.maxRetries)
            => rt.pc \in {"await", "sleep"}
    /\ \A n \in DOMAIN rtLog :
          (rtLog[n].ok /\ \A j \in 1..(n - 1) : FailedWith(rtLog[j], Retryable))
            => /\ Len(rtLog) = n
               /\ rt.pc = "returned"
               /\ rt.result = rtLog[n].value
               /\ rt.sleeps = n - 1

\* two retryable failures (one recognised by its text alone), then a success
C5_Witness ==
    /\ rt.pc = "returned" /\ Len(rtLog) = 3 /\ rt.maxRetries = 3
    /\ rtLog[1].err = OverloadedText /\ rtLog[2].err = ApiError429
    /\ rtLog[3].ok /\ rt.result = "image"

\* C6: with maxRetries >= 1, when the first invocation fails with an error
\* that is neither Rate-limited nor Overloaded, operation is invoked exactly
\* once and that error is thrown at once, without a backoff sleep.
C6_OtherNotRetried ==
    (rt.maxRetries >= 1 /\ Len(rtLog) >= 1 /\ FailedWith(rtLog[1], OtherShapes)) =>
        /\ Len(rtLog) = 1
        /\ rt.pc = "thrown"
        /\ rt.thrown = rtLog[1].err
        /\ rt.sleeps = 0

C6_Witness ==
    /\ rt.maxRetries = 3 /\ rt.pc = "thrown" /\ Len(rtLog) = 1
    /\ rtLog[1].err = BadRequest /\ rt.thrown = BadRequest

----------------------------------------------------------------------------
(* Properties of processQueue (Spec) *)

Ptp(r) == runs[r].pagesToProcess
InLoop(r) == runs[r].pc \in {"inflight", "pacing"}
\* the run has left its loop and waits for the cover
Exited(r) == runs[r].pc = "awaitCover"
\* the step in which the invocation returns
Ends(r) == runs[r].pc # "done" /\ runs'[r].pc = "done"
\* the step in which the run leaves its loop
Leaves(r) == InLoop(r) /\ runs'[r].pc \in {"awaitCover", "done"}
AllTerminal(pgs) == \A k \in DOMAIN pgs : pgs[k].status \in {"completed", "failed"}
IdsOf(r) == {Ptp(r)[k].id : k \in DOMAIN Ptp(r)}

\* the page list of the React state is the run's list, page by page
SamePages(r) ==
    /\ Len(pages) = Len(Ptp(r))
    /\ \A k \in DOMAIN pages : /\ pages[k].id = Ptp(r)[k].id
                               /\ pages[k].status = Ptp(r)[k].status

\* the page list of the React state is still the list the run was given
SameIds(r) ==
    /\ Len(pages) = Len(Ptp(r))
    /\ \A k \in DOMAIN pages : pages[k].id = Ptp(r)[k].id

\* what C1 promises of the run that ends in this step
CompleteAtEnd(r) ==
    /\ Len(Ptp(r)) >= 1
    /\ SamePages(r)
    /\ AllTerminal(pages) /\ AllTerminal(pages')
    /\ \A k \in DOMAIN Ptp(r) : /\ Ptp(r)[k].status \in Terminal
                                /\ runs[r].terms[k] = 1

\* C1: a run over N >= 1 pending pages in which navigate is never called and
\* no page failure trips the quota breaker ends with every page completed or
\* failed, and every page has had exactly one terminal status update.
C1_BatchCompleteness ==
    [][\A r \in Runs :
          (Ends(r) /\ ~navigated' /\ ~runs[r].breaker) => CompleteAtEnd(r)
      ]_vars

\* what does hold of C1: a run over N >= 1 pending pages during which
\* nothing clears the cancel flag while the run is in its loop (no navigate,
\* no failing plan call, no other run ending, no quota breaker) and whose
\* page list is not replaced ends with every page completed or failed, and
\* every page has had exactly one terminal status update.
C1_WithoutCancellation ==
    [][\A r \in Runs :
          (Ends(r) /\ ~runs[r].cancelled /\ ~runs[r].breaker /\ SameIds(r))
              => CompleteAtEnd(r)
      ]_vars

\* a finished run of three pages, two batches, with both outcomes
C1_Witness ==
    \E r \in Runs :
        /\ runs[r].pc = "done" /\ ~navigated /\ ~runs[r].breaker
        /\ planCalls = 0 /\ ~error.set
        /\ Len(pages) = 3 /\ step = "review"
        /\ pages[1].status = "failed" /\ pages[2].status = "completed"
        /\ pages[3].status = "completed"

\* C2: once a page of the run has failed with a Rate-limited error (which
\* withRetry throws only when its retries are exhausted), the run dispatches
\* no further batch and its pending pages stay pending.
C2_QuotaStopsDispatch ==
    [][\A r \in Runs :
          runs[r].quotaFailed =>
              /\ runs'[r].rounds <= runs[r].rounds
              /\ \A k \in DOMAIN Ptp(r) \cap DOMAIN runs'[r].pagesToProcess :
                    Ptp(r)[k].status = "pending"
                        => runs'[r].pagesToProcess[k].status = "pending"]_vars

\* C3: when page A of a batch fails with an error that does not report the
\* quota and page B of the same batch succeeds, B is completed with its
\* image, A is failed, and the run is not stopped: unless the run is
\* cancelled from outside, the cancel flag stays set while the run is in its
\* loop, and the run leaves the loop only when no page is pending.
MixedBatch(r, a, b) ==
    /\ runs[r].round[a] >= 1 /\ runs[r].round[a] = runs[r].round[b]
    /\ Ptp(r)[a].status = "failed" /\ Ptp(r)[b].status = "completed"
    /\ ~runs[r].quotaSeen /\ ~runs[r].cancelled /\ SameIds(r)

IsolatedIn(r, a, b) ==
    MixedBatch(r, a, b) =>
        /\ SamePages(r)
        /\ pages[a].status = "failed" /\ pages[a].imageUrl = NoImage
        /\ pages[b].status = "completed" /\ pages[b].imageUrl = DataUri
        /\ InLoop(r) => isGeneratingImagesRef
        /\ Exited(r) => PendingIdx(Ptp(r)) = {}

C3_FailureIsolation ==
    [][\A r \in Runs :
          /\ \A a, b \in DOMAIN Ptp(r) :
                /\ IsolatedIn(r, a, b)
                /\ (MixedBatch(r, a, b) /\ Leaves(r)) => PendingIdx(Ptp(r)) = {}
          /\ \A a, b \in DOMAIN runs'[r].pagesToProcess : IsolatedIn(r, a, b)'
      ]_vars

\* the batch after the mixed one has been dispatched
C3_Witness ==
    \E r \in Runs :
        /\ ~navigated /\ ~runs[r].quotaSeen /\ ~runs[r].cancelled
        /\ Len(Ptp(r)) = 3
        /\ Ptp(r)[2].status = "failed" /\ Ptp(r)[1].status = "completed"
        /\ runs[r].round[3] = 2 /\ pages[3].status = "generating"

ValidTransition(s, t) ==
    \/ s = t
    \/ s = "pending" /\ t = "generating"
    \/ s = "generating" /\ t \in Terminal

\* C7: every status change of a page, in the React state and in the queue's
\* own list, is pending -> generating, generating -> completed or
\* generating -> failed; a completed or failed page keeps its status and no
\* pending page becomes terminal in one step.
C7_StatusMachine ==
    [][ /\ \A k \in DOMAIN pages, j \in DOMAIN pages' :
              pages[k].id = pages'[j].id
                  => ValidTransition(pages[k].status, pages'[j].status)
        /\ \A r \in Runs : \A k \in DOMAIN Ptp(r) \cap DOMAIN runs'[r].pagesToProcess :
              ValidTransition(Ptp(r)[k].status, runs'[r].pagesToProcess[k].status)
      ]_vars

\* the second batch is in flight after both outcomes in the first
C7_Witness ==
    /\ Len(pages) = 3
    /\ pages[1].status = "completed" /\ pages[2].status = "failed"
    /\ pages[3].status = "generating"

\* C8: once a page of a later batch has been set to generating (and sent),
\* every page of every earlier batch has settled, in the queue's list and in
\* the React state.
C8_BatchBarrier ==
    \A r \in Runs : \A a, b \in DOMAIN Ptp(r) :
        (runs[r].round[a] >= 1 /\ runs[r].round[b] > runs[r].round[a]) =>
            /\ Ptp(r)[a].status \in Terminal
            /\ runs[r].call[a].pc = "none"
            /\ \A k \in DOMAIN pages :
                  pages[k].id = Ptp(r)[a].id => pages[k].status \in Terminal

\* batch 2 in flight; in batch 1 the second page failed and the first one
\* completed
C8_Witness ==
    \E r \in Runs :
        /\ Len(Ptp(r)) = 3 /\ runs[r].round[3] = 2
        /\ runs[r].call[3].pc = "await"
        /\ Ptp(r)[1].status = "completed" /\ Ptp(r)[2].status = "failed"

\* C9: a batch is dispatched only when the cancel flag is set at the check
\* before it; a run that has left its loop dispatches nothing and changes the
\* status of none of its pages, so the pages that were pending stay pending
\* and none is marked failed.
C9_CooperativeCancel ==
    [][\A r \in Runs :
          /\ runs'[r].rounds > runs[r].rounds => isGeneratingImagesRef'
          /\ (Exited(r) \/ Leaves(r)) =>
                /\ runs'[r].rounds <= runs[r].rounds
                /\ runs'[r].pc # "done" => /\ runs'[r].pagesToProcess = Ptp(r)
                                          /\ runs'[r].call = runs[r].call
                /\ \A k \in DOMAIN pages, j \in DOMAIN pages' :
                      (pages[k].id = pages'[j].id /\ pages[k].id \in IdsOf(r))
                         => pages'[j].status = pages[k].status
      ]_vars

\* cancelled by navigate after the first batch: the third page is still
\* pending, no page is failed
C9_Witness ==
    \E r \in Runs :
        /\ Exited(r) /\ navigated /\ ~runs[r].breaker
        /\ ~isGeneratingImagesRef
        /\ Len(Ptp(r)) = 3 /\ runs[r].rounds = 1
        /\ Ptp(r)[3].status = "pending"
        /\ \A k \in DOMAIN Ptp(r) : Ptp(r)[k].status # "failed"
        /\ Len(pages) = 3 /\ pages[3].status = "pending"

\* C10: when processQueue ends with step = 'generating', step becomes
\* 'review' if and only if every page is completed or failed; with a page
\* still pending or generating, and whenever step is not 'generating', step
\* is left as it is; the page list is never changed by the end of the run.
C10_DoneDetection ==
    [][\A r \in Runs :
          Ends(r) =>
              /\ pages' = pages
              /\ step = "generating" => (step' = "review" <=> AllTerminal(pages))
              /\ step # "generating" => step' = step
              /\ ~AllTerminal(pages) => step' = step
              /\ step' \in {step, "review"}
      ]_vars

C10_Witness ==
    \E r \in Runs :
        /\ runs[r].pc = "done" /\ step = "review"
        /\ Len(pages) = 3
        /\ pages[1].status = "failed" /\ pages[2].status = "completed"
        /\ pages[3].status = "failed"

\* a run that ended with a page still pending: step is still 'generating'
C10_WitnessNotDone ==
    \E r \in Runs :
        /\ runs[r].pc = "done" /\ step = "generating" /\ view = "vip"
        /\ \E k \in DOMAIN pages : pages[k].status = "pending"

----------------------------------------------------------------------------
(* Properties of the page list (Spec) *)

\* C11: in every reachable state a page of the page list has an imageUrl if
\* and only if its status is completed.
C11_ImageIffCompleted ==
    \A k \in DOMAIN pages :
        pages[k].imageUrl # NoImage <=> pages[k].status = "completed"

\* a completed page with its image beside a failed and a generating page
C11_Witness ==
    /\ Len(pages) = 3
    /\ pages[1].status = "completed" /\ pages[1].imageUrl = DataUri
    /\ pages[2].status = "failed" /\ pages[2].imageUrl = NoImage
    /\ pages[3].status = "generating" /\ pages[3].imageUrl = NoImage

----------------------------------------------------------------------------
(* Properties of the circuit breaker (Spec) *)

\* the step in which a page of run r fails with an error that withRetry
\* classifies as Rate-limited, for the first time in the run
FirstQuotaFailure(r) == ~runs[r].quotaFailed /\ runs'[r].quotaFailed

\* C12: every page failure that withRetry classifies as Rate-limited trips the
\* circuit breaker of processQueue: in the step of the failure the breaker's
\* test matches, the cancel flag is cleared and handleError publishes an error.
C12_RateLimitedTripsBreaker ==
    [][\A r \in Runs :
          FirstQuotaFailure(r) =>
              /\ runs'[r].breaker
              /\ ~isGeneratingImagesRef'
              /\ error'.set
      ]_vars

\* the step in which the breaker's test of line 204 matches a page error of
\* run r, for the first time in the run
FirstBreakerTrip(r) == ~runs[r].breaker /\ runs'[r].breaker

\* C13: whenever the circuit breaker fires for a page error, the error that
\* handleError publishes for it has isQuota = true.
C13_BreakerErrorIsQuota ==
    [][\A r \in Runs :
          FirstBreakerTrip(r) => (error'.set /\ error'.isQuota)
      ]_vars

----------------------------------------------------------------------------
(* Properties of the cover (Spec) *)

\* the step in which the cover call of run r fails: it settles and leaves no
\* cover image
CoverFails(r) ==
    /\ runs[r].cover = "inflight" /\ runs'[r].cover # "inflight"
    /\ coverImage = NoCover /\ coverImage' = NoCover

\* C15: a failure of the cover generation, of any kind, changes no page,
\* publishes no error and, while the run is in its loop, leaves the cancel
\* flag and the run as they are, so that the later batches are dispatched as
\* without it; when the run was waiting for the cover it ends as it does
\* after a cover that succeeded.
C15_CoverFailureIgnored ==
    [][\A r \in Runs :
          CoverFails(r) =>
              /\ pages' = pages
              /\ error' = error /\ loading' = loading
              /\ InLoop(r) =>
                    /\ isGeneratingImagesRef' = isGeneratingImagesRef
                    /\ runs'[r] = [runs[r] EXCEPT !.cover = "settled"]
              /\ ~InLoop(r) => Ends(r)
      ]_vars

\* the cover failed during batch 1 and batch 2 has been dispatched
C15_Witness ==
    \E r \in Runs :
        /\ runs[r].cover = "settled" /\ coverImage = NoCover
        /\ Len(Ptp(r)) = 3 /\ runs[r].round[3] = 2
        /\ pages[3].status = "generating"
        /\ isGeneratingImagesRef /\ ~error.set /\ ~navigated

----------------------------------------------------------------------------
(* More properties of withRetry (SpecRetry) *)

\* C16: withRetry called with maxRetries <= 0 invokes operation exactly once,
\* without retry, and returns its value or throws its error: the call is
\* either waiting for that one invocation or has settled with its outcome.
C16_ZeroRetriesOneAttempt ==
    rt.maxRetries <= 0 =>
        \/ rt.pc = "await" /\ Len(rtLog) = 0
        \/ /\ Len(rtLog) = 1 /\ rt.sleeps = 0
           /\ IF rtLog[1].ok
              THEN rt.pc = "returned" /\ rt.result = rtLog[1].value
              ELSE rt.pc = "thrown" /\ rt.thrown = rtLog[1].err

----------------------------------------------------------------------------
(* handleRetryPage, src/App.tsx second variant, lines 798-819              *)
(*                                                                         *)
(* retryApp.pages  : state.pages after a run: every page pending (the run  *)
(*                   was cancelled before it), completed or failed         *)
(* retryApp.calls  : per page, "await" while the generateColoringPage call *)
(*                   of a retry is in flight (its withRetry included)      *)
(* retryApp.clicks : history, the Retry clicks on each page                *)

GridIdx == 1..GridPages

GridPage(k, status) ==
    [id |-> k, status |-> status,
     imageUrl |-> IF status = "completed" THEN DataUri ELSE NoImage]

\* lines 802-805 marking every page
RetrySetGenerating_All(pgs, pageId) ==
    [k \in DOMAIN pgs |-> [pgs[k] EXCEPT !.status = "generating"]]

\* lines 802-805
RetrySetGenerating(pgs, pageId) ==
    [k \in DOMAIN pgs |->
        IF pgs[k].id = pageId THEN [pgs[k] EXCEPT !.status = "generating"] ELSE pgs[k]]

\* lines 809-812
RetrySetCompleted(pgs, pageId, img) ==
    [k \in DOMAIN pgs |->
        IF pgs[k].id = pageId
        THEN [pgs[k] EXCEPT !.status = "completed", !.imageUrl = img] ELSE pgs[k]]

\* lines 814-817
RetrySetFailed(pgs, pageId) ==
    [k \in DOMAIN pgs |->
        IF pgs[k].id = pageId THEN [pgs[k] EXCEPT !.status = "failed"] ELSE pgs[k]]

\* the Retry button of line 1331-1333 (shown on a failed page), and
\* handleRetryPage up to its await
HandleRetryPage(k) ==
    /\ retryApp.pages[k].status = "failed"
    /\ retryApp.clicks[k] < MaxRetryClicks
    /\ retryApp' = [retryApp EXCEPT
                      !.pages = RetrySetGenerating(@, retryApp.pages[k].id),
                      !.calls[k] = "await",
                      !.clicks[k] = @ + 1]
    /\ UNCHANGED <<retryVars, appVars, turbo, studio, pair, moreVars>>

\* generateColoringPage of the retry settles with outcome o: lines 808-818
RetryPageSettles(k, o) ==
    /\ retryApp.calls[k] = "await"
    /\ retryApp' = [retryApp EXCEPT
                      !.pages = IF o.ok /\ o.value = "image"
                                THEN RetrySetCompleted(@, retryApp.pages[k].id, DataUri)
                                ELSE RetrySetFailed(@, retryApp.pages[k].id),
                      !.calls[k] = "none"]
    /\ UNCHANGED <<retryVars, appVars, turbo, studio, pair, moreVars>>

RetryPageInit ==
    /\ AppInit /\ rt = RtIdle /\ rtLog = <<>>
    /\ turbo = TurboIdle /\ studio = StudioIdle /\ pair = PairIdle
    /\ MoreIdle
    /\ \E st \in [GridIdx -> {"pending", "completed", "failed"}] :
          retryApp = [pages |-> [k \in GridIdx |-> GridPage(k, st[k])],
                      calls |-> [k \in GridIdx |-> "none"],
                      clicks |-> [k \in GridIdx |-> 0]]

RetryPageNext ==
    \/ \E k \in GridIdx : HandleRetryPage(k)
    \/ \E k \in GridIdx, o \in Outcomes : RetryPageSettles(k, o)

SpecRetryPage == RetryPageInit /\ [][RetryPageNext]_vars

\* the retry of page k starts, ends in this step
RetryStarts(k) == retryApp.calls[k] = "none" /\ retryApp'.calls[k] = "await"
RetryEnds(k) == retryApp.calls[k] = "await" /\ retryApp'.calls[k] = "none"

OthersUntouched(k) ==
    \A j \in GridIdx : j # k => retryApp'.pages[j] = retryApp.pages[j]

\* C14: handleRetryPage on a failed page sets the page to generating, the
\* page stays generating until the call settles and then becomes completed
\* with its image or failed; no step of the retry changes another page.
C14_RetryPage ==
    [][\A k \in GridIdx :
          /\ RetryStarts(k) =>
                /\ retryApp.pages[k].status = "failed"
                /\ retryApp'.pages[k].status = "generating"
                /\ OthersUntouched(k)
          /\ retryApp.calls[k] = "await" => retryApp.pages[k].status = "generating"
          /\ RetryEnds(k) =>
                /\ \/ /\ retryApp'.pages[k].status = "completed"
                      /\ retryApp'.pages[k].imageUrl = DataUri
                   \/ /\ retryApp'.pages[k].status = "failed"
                      /\ retryApp'.pages[k].imageUrl = NoImage
                /\ OthersUntouched(k)
      ]_vars

\* page 2 was retried twice, failed and then completed, while the retry of
\* page 1 is in flight; page 3 is as it was
C14_Witness ==
    /\ retryApp # RetryAppIdle
    /\ retryApp.clicks[2] = 2 /\ retryApp.pages[2].status = "completed"
    /\ retryApp.calls[1] = "await" /\ retryApp.pages[1].status = "generating"
    /\ retryApp.clicks[3] = 0 /\ retryApp.pages[3].status = "pending"

----------------------------------------------------------------------------
(* The single-page studio, src/unnamed/part_002                            *)
(*                                                                         *)
(* studio.pages             : state.pages, after the plan                  *)
(* studio.isBatchGenerating : line 57                                      *)
(* studio.stopBatchRef      : stopBatchRef.current, line 61                *)
(* studio.error             : line 58                                      *)
(* studio.singles           : per page, "await" while a generateSinglePage *)
(*                            started by the page's own button is in flight*)
(* studio.batches           : the handleGenerateAllPages invocations; each *)
(*                            keeps its pendingPages (ids taken at line    *)
(*                            166), its position i, its pc: "await"        *)
(*                            (line 170), "sleep" (line 176), "done", and  *)
(*                            the history stopped: stopBatch was called    *)
(*                            while the loop was running                   *)

\* lines 68-82: the error it publishes (the test of line 73 is that of the
\* first variant's handleError)
StudioHandleError(err) == [set |-> TRUE, isQuota |-> handleErrorIsQuota(err)]

\* lines 137-140
StudioSetGenerating(pgs, pageId) ==
    [k \in DOMAIN pgs |->
        IF pgs[k].id = pageId THEN [pgs[k] EXCEPT !.status = "generating"] ELSE pgs[k]]

\* lines 145-148
StudioSetCompleted(pgs, pageId, img) ==
    [k \in DOMAIN pgs |->
        IF pgs[k].id = pageId
        THEN [pgs[k] EXCEPT !.status = "completed", !.imageUrl = img] ELSE pgs[k]]

\* lines 151-154
StudioSetFailed(pgs, pageId) ==
    [k \in DOMAIN pgs |->
        IF pgs[k].id = pageId THEN [pgs[k] EXCEPT !.status = "failed"] ELSE pgs[k]]

\* lines 217-220
StudioClear(pgs, pageId) ==
    [k \in DOMAIN pgs |->
        IF pgs[k].id = pageId
        THEN [pgs[k] EXCEPT !.status = "pending", !.imageUrl = NoImage] ELSE pgs[k]]

\* line 166: the ids of state.pages.filter(p => p.status !== 'completed')
RECURSIVE NotCompletedIds(_)
NotCompletedIds(pgs) ==
    IF pgs = <<>> THEN <<>>
    ELSE (IF Head(pgs).status # "completed" THEN <<Head(pgs).id>> ELSE <<>>)
         \o NotCompletedIds(Tail(pgs))

completedCount == Cardinality({k \in DOMAIN studio.pages :
                                  studio.pages[k].status = "completed"})

StudioFrame == UNCHANGED <<retryVars, appVars, retryApp, turbo, pair, moreVars>>

\* the buttons of lines 465 and 472 (failed and pending pages, disabled
\* during a batch), and generateSinglePage up to its await, lines 132-143
GenerateSinglePage(k) ==
    /\ studio.pages[k].status \in {"failed", "pending"}
    /\ ~studio.isBatchGenerating
    /\ studio' = [studio EXCEPT
                    !.error = NoError,
                    !.pages = StudioSetGenerating(@, studio.pages[k].id),
                    !.singles[k] = "await"]
    /\ StudioFrame

\* the call of a page's own generateSinglePage settles: lines 143-157
SinglePageSettles(k, o) ==
    /\ studio.singles[k] = "await"
    /\ studio' = [studio EXCEPT
                    !.pages = IF o.ok /\ o.value = "image"
                              THEN StudioSetCompleted(@, studio.pages[k].id, DataUri)
                              ELSE StudioSetFailed(@, studio.pages[k].id),
                    !.error = IF o.ok /\ o.value = "image" THEN @
                              ELSE StudioHandleError(IF o.ok THEN NoImageDataError
                                                     ELSE o.err),
                    !.singles[k] = "none"]
    /\ StudioFrame

\* the button of line 374 outside a batch, and handleGenerateAllPages up to
\* the await of its first generateSinglePage: lines 160-170; at most n
\* invocations in one behaviour
HandleGenerateAllPagesUpTo(n) ==
    /\ completedCount < Len(studio.pages)
    /\ ~studio.isBatchGenerating
    /\ Len(studio.batches) < n
    /\ LET pendingPages == NotCompletedIds(studio.pages)
       IN  studio' = [studio EXCEPT
                        !.isBatchGenerating = TRUE,
                        !.stopBatchRef = FALSE,
                        !.error = NoError,
                        !.pages = StudioSetGenerating(@, pendingPages[1]),
                        !.batches = Append(@, [pendingPages |-> pendingPages,
                                               i |-> 1, pc |-> "await",
                                               stopped |-> FALSE])]
    /\ StudioFrame

HandleGenerateAllPages == HandleGenerateAllPagesUpTo(MaxBatches)

\* lines 143-157 and 170-176 without the break of lines 171-174
BatchPageSettles_Continue(b, o) ==
    /\ b \in DOMAIN studio.batches
    /\ studio.batches[b].pc = "await"
    /\ LET pageId == studio.batches[b].pendingPages[studio.batches[b].i]
           success == o.ok /\ o.value = "image"
       IN  studio' = [studio EXCEPT
                        !.pages = IF success THEN StudioSetCompleted(@, pageId, DataUri)
                                  ELSE StudioSetFailed(@, pageId),
                        !.error = IF success THEN @
                                  ELSE StudioHandleError(IF o.ok THEN NoImageDataError
                                                         ELSE o.err),
                        !.batches[b].pc = "sleep"]
    /\ StudioFrame

\* the generateSinglePage of batch b settles: lines 143-157 and 170-176
BatchPageSettles(b, o) ==
    /\ b \in DOMAIN studio.batches
    /\ studio.batches[b].pc = "await"
    /\ LET pageId == studio.batches[b].pendingPages[studio.batches[b].i]
           success == o.ok /\ o.value = "image"
       IN  studio' = [studio EXCEPT
                        !.pages = IF success THEN StudioSetCompleted(@, pageId, DataUri)
                                  ELSE StudioSetFailed(@, pageId),
                        !.error = IF success THEN @
                                  ELSE StudioHandleError(IF o.ok THEN NoImageDataError
                                                         ELSE o.err),
                        \* line 171-174: break, then line 179
                        !.isBatchGenerating = IF success THEN @ ELSE FALSE,
                        !.batches[b].pc = IF success THEN "sleep" ELSE "done"]
    /\ StudioFrame

\* the 1500 ms of line 176 are over: the next iteration, lines 168-170, or
\* the end of the loop, line 179
BatchWake(b) ==
    /\ b \in DOMAIN studio.batches
    /\ studio.batches[b].pc = "sleep"
    /\ LET bt == studio.batches[b]
           more == bt.i < Len(bt.pendingPages) /\ ~studio.stopBatchRef
       IN  studio' = IF more
                     THEN [studio EXCEPT
                             !.error = NoError,
                             !.pages = StudioSetGenerating(@, bt.pendingPages[bt.i + 1]),
                             !.batches[b].i = bt.i + 1,
                             !.batches[b].pc = "await"]
                     ELSE [studio EXCEPT
                             !.isBatchGenerating = FALSE,
                             !.batches[b].pc = "done"]
    /\ StudioFrame

\* history: stopBatch is called; it is noted on every loop that has not ended
NoteStopped(bs) ==
    [b \in DOMAIN bs |->
        IF bs[b].pc # "done" THEN [bs[b] EXCEPT !.stopped = TRUE] ELSE bs[b]]

\* the button of line 374 during a batch: lines 182-185
StopBatch ==
    /\ completedCount < Len(studio.pages)
    /\ studio.isBatchGenerating
    /\ studio' = [studio EXCEPT
                    !.stopBatchRef = TRUE,
                    !.isBatchGenerating = FALSE,
                    !.batches = NoteStopped(@)]
    /\ StudioFrame

\* the button of line 449, shown on a completed page with its image:
\* lines 216-221
ClearPage(k) ==
    /\ studio.pages[k].status = "completed"
    /\ studio.pages[k].imageUrl # NoImage
    /\ studio' = [studio EXCEPT !.pages = StudioClear(@, studio.pages[k].id)]
    /\ StudioFrame

StudioInit ==
    /\ AppInit /\ rt = RtIdle /\ rtLog = <<>>
    /\ retryApp = RetryAppIdle /\ turbo = TurboIdle /\ pair = PairIdle
    /\ MoreIdle
    /\ studio = [StudioIdle EXCEPT
                   !.pages = [k \in GridIdx |-> GridPage(k, "pending")],
                   !.singles = [k \in GridIdx |-> "none"]]

StudioNext ==
    \/ \E k \in GridIdx : GenerateSinglePage(k)
    \/ \E k \in GridIdx, o \in Outcomes : SinglePageSettles(k, o)
    \/ HandleGenerateAllPages
    \/ \E b \in 1..MaxBatches, o \in Outcomes : BatchPageSettles(b, o)
    \/ \E b \in 1..MaxBatches : BatchWake(b)
    \/ StopBatch
    \/ \E k \in GridIdx : ClearPage(k)

SpecStudio == StudioInit /\ [][StudioNext]_vars

\* the order of the statuses: pending, generating, then completed or failed
Rank(status) ==
    CASE status = "pending" -> 0
      [] status = "generating" -> 1
      [] OTHER -> 2

Backward(old, new) == Rank(new) < Rank(old)

\* C17: in the studio the only backward status transition of a page is that
\* of a failed page; no step moves a completed page to pending or generating.
C17_OnlyFailedGoesBack ==
    [][\A k \in GridIdx :
          Backward(studio.pages[k].status, studio'.pages[k].status)
              => studio.pages[k].status = "failed"]_vars

----------------------------------------------------------------------------
(* The safe/turbo variant, src/unnamed/part_003                            *)
(*                                                                         *)
(* turbo.pages          : state.pages, after the plan                      *)
(* turbo.step           : state.step                                       *)
(* turbo.concurrency    : line 52                                          *)
(* turbo.flag           : isGeneratingImagesRef.current                    *)
(* turbo.error          : line 49                                          *)
(* turbo.cover          : the generateCoverImage call of line 141: "none", *)
(*                        "inflight", "image", "failed"                    *)
(* turbo.pc             : processQueue: "idle", "batch" (line 155),        *)
(*                        "sleep" (line 177), "done"                       *)
(* turbo.pagesToProcess : the local of line 145                            *)
(* turbo.batch          : the indices of the batch of line 148             *)
(* turbo.inflight       : the batch's calls that have not settled          *)
(* turbo.round          : iterations of the while loop entered             *)
(* turbo.sent           : history, per page the generateColoringPage calls *)
(*                        processQueue made for it                         *)
(* turbo.retries        : per page, "await" while a retryPage is in flight *)

\* line 137
TurboBatchSize(concurrency) == IF concurrency = "turbo" THEN 3 ELSE 1

\* line 147
TurboLoopCondition(ptp, flag) == PendingIdx(ptp) # {} /\ flag

\* line 148
TurboSelectBatch(ptp, concurrency) ==
    FirstN(PendingIdx(ptp), TurboBatchSize(concurrency))

\* lines 150-153
TurboMarkGenerating(pgs, ids) ==
    [k \in DOMAIN pgs |->
        IF pgs[k].id \in ids THEN [pgs[k] EXCEPT !.status = "generating"] ELSE pgs[k]]

\* lines 158-161 and 114-117
TurboMarkCompleted(pgs, pageId, img) ==
    [k \in DOMAIN pgs |->
        IF pgs[k].id = pageId
        THEN [pgs[k] EXCEPT !.status = "completed", !.imageUrl = img] ELSE pgs[k]]

\* lines 163 and 119-122
TurboMarkFailed(pgs, pageId) ==
    [k \in DOMAIN pgs |->
        IF pgs[k].id = pageId THEN [pgs[k] EXCEPT !.status = "failed"] ELSE pgs[k]]

\* line 164
TurboBreakerMatches(err) ==
    \/ includes(JSON_stringify(err), "429")
    \/ includes(JSON_stringify(err), "RESOURCE_EXHAUSTED")

\* lines 60-75: the error it publishes (the test of line 66 is that of the
\* first variant's handleError)
TurboHandleError(err) == [set |-> TRUE, isQuota |-> handleErrorIsQuota(err)]

\* lines 147-155: the loop's test and, when it passes, one iteration up to
\* the await of Promise.all; lines 180-185 when it fails
TurboLoopHead(t) ==
    IF TurboLoopCondition(t.pagesToProcess, t.flag)
    THEN LET batch == TurboSelectBatch(t.pagesToProcess, t.concurrency)
             ids == {t.pagesToProcess[k].id : k \in batch}
         IN  [t EXCEPT
                !.pages = TurboMarkGenerating(@, ids),
                !.batch = batch,
                !.inflight = batch,
                !.round = @ + 1,
                !.sent = [k \in DOMAIN @ |-> IF k \in batch THEN @[k] + 1 ELSE @[k]],
                !.pc = "batch"]
    ELSE [t EXCEPT
            !.flag = FALSE,
            !.step = IF allDone(t.pages) /\ t.step = "generating" THEN "review" ELSE @,
            !.batch = {},
            !.pc = "done"]

TurboFrame == UNCHANGED <<retryVars, appVars, retryApp, studio, pair, moreVars>>

\* the buttons of lines 277-278
SetConcurrency(c) ==
    /\ turbo.step = "planning"
    /\ turbo.concurrency # c
    /\ turbo' = [turbo EXCEPT !.concurrency = c]
    /\ TurboFrame

\* the button of line 288: startImageGeneration, lines 128-134, and
\* processQueue up to its first await
TurboStartImageGeneration ==
    /\ turbo.step = "planning"
    /\ turbo.pc = "idle"
    /\ turbo' = TurboLoopHead([turbo EXCEPT
                                 !.flag = TRUE,
                                 !.step = "generating",
                                 !.cover = "inflight",
                                 !.pagesToProcess = turbo.pages])
    /\ TurboFrame

\* lines 141-143
TurboCoverSettles(o) ==
    /\ turbo.cover = "inflight"
    /\ turbo' = [turbo EXCEPT
                   !.cover = IF o.ok /\ o.value = "image" THEN "image" ELSE "failed"]
    /\ TurboFrame

\* the call of page k of the batch settles: lines 156-168, and after the
\* last of the batch lines 171-177
TurboPageSettles(k, o) ==
    /\ turbo.pc = "batch"
    /\ k \in turbo.inflight
    /\ LET success == o.ok /\ o.value = "image"
           err == IF o.ok THEN NoImageDataError ELSE o.err
           trips == ~success /\ TurboBreakerMatches(err)
           pageId == turbo.pagesToProcess[k].id
       IN  turbo' = [turbo EXCEPT
                       !.pages = IF success THEN TurboMarkCompleted(@, pageId, DataUri)
                                 ELSE TurboMarkFailed(@, pageId),
                       !.flag = IF trips THEN FALSE ELSE @,
                       !.error = IF trips THEN TurboHandleError(err) ELSE @,
                       !.inflight = @ \ {k},
                       !.pc = IF turbo.inflight = {k} THEN "sleep" ELSE @]
    /\ TurboFrame

\* the DELAY of line 177 is over: back to line 147
TurboPacingDone ==
    /\ turbo.pc = "sleep"
    /\ TurboLoopCondition(turbo.pagesToProcess, turbo.flag) => turbo.round < MaxRounds
    /\ turbo' = TurboLoopHead(turbo)
    /\ TurboFrame

\* the button of line 322, shown on a failed page: retryPage up to its
\* await, lines 103-112
RetryPage(k) ==
    /\ turbo.pages[k].status = "failed"
    /\ turbo.retries[k] = "none"
    /\ turbo' = [turbo EXCEPT
                   !.pages = TurboMarkGenerating(@, {turbo.pages[k].id}),
                   !.retries[k] = "await"]
    /\ TurboFrame

\* lines 112-125
TurboRetrySettles(k, o) ==
    /\ turbo.retries[k] = "await"
    /\ LET success == o.ok /\ o.value = "image"
           err == IF o.ok THEN NoImageDataError ELSE o.err
       IN  turbo' = [turbo EXCEPT
                       !.pages = IF success
                                 THEN TurboMarkCompleted(@, turbo.pages[k].id, DataUri)
                                 ELSE TurboMarkFailed(@, turbo.pages[k].id),
                       !.error = IF success THEN @ ELSE TurboHandleError(err),
                       !.retries[k] = "none"]
    /\ TurboFrame

TurboInit ==
    /\ AppInit /\ rt = RtIdle /\ rtLog = <<>>
    /\ retryApp = RetryAppIdle /\ studio = StudioIdle /\ pair = PairIdle
    /\ MoreIdle
    /\ turbo = [TurboIdle EXCEPT
                  !.step = "planning",
                  !.pages = [k \in GridIdx |-> GridPage(k, "pending")],
                  !.sent = [k \in GridIdx |-> 0],
                  !.retries = [k \in GridIdx |-> "none"]]

TurboNext ==
    \/ \E c \in {"safe", "turbo"} : SetConcurrency(c)
    \/ TurboStartImageGeneration
    \/ \E o \in Outcomes : TurboCoverSettles(o)
    \/ \E k \in GridIdx, o \in Outcomes : TurboPageSettles(k, o)
    \/ TurboPacingDone
    \/ \E k \in GridIdx : RetryPage(k)
    \/ \E k \in GridIdx, o \in Outcomes : TurboRetrySettles(k, o)

SpecTurbo == TurboInit /\ [][TurboNext]_vars

\* the queue has its hands on the page list in this step
QueueStep == turbo'.round # turbo.round

\* C18: within one run of processQueue each page is sent to
\* generateColoringPage at most once, and no step of the queue sets a
\* completed page back to generating.
C18_NoRedo ==
    [][\A k \in GridIdx :
          /\ turbo'.sent[k] <= 1
          /\ QueueStep => ~(/\ turbo.pages[k].status = "completed"
                            /\ turbo'.pages[k].status = "generating")]_vars

----------------------------------------------------------------------------
(* C19 *)

GeneratingIn(pgs) == {k \in DOMAIN pgs : pgs[k].status = "generating"}

BatchIds(r) == {Ptp(r)[k].id : k \in runs[r].batch}

\* C19: during a run of processQueue at most BATCH_SIZE pages have status
\* generating, in the queue's list and in the React state, and each of them
\* is a page of the batch the run is executing.
C19_OneBatchGenerating ==
    /\ \A r \in Runs :
          /\ Cardinality(GeneratingIn(Ptp(r))) <= BATCH_SIZE
          /\ GeneratingIn(Ptp(r)) \subseteq runs[r].batch
          /\ GeneratingIn(Ptp(r)) # {} => runs[r].pc = "inflight"
    /\ Cardinality(GeneratingIn(pages)) <= BATCH_SIZE
    /\ \A k \in GeneratingIn(pages) :
          \E r \in Runs : runs[r].pc = "inflight" /\ pages[k].id \in BatchIds(r)

\* the second batch of a run: its one page is generating, the first batch's
\* two pages have settled
C19_Witness ==
    \E r \in Runs :
        /\ Len(Ptp(r)) = 3 /\ SameIds(r)
        /\ runs[r].rounds = 2 /\ runs[r].batch = {3}
        /\ GeneratingIn(pages) = {3} /\ GeneratingIn(Ptp(r)) = {3}
        /\ pages[1].status \in Terminal /\ pages[2].status \in Terminal

\* the first batch of a run: two pages generating, the third pending
C19_WitnessFull ==
    \E r \in Runs :
        /\ Len(Ptp(r)) = 3 /\ SameIds(r)
        /\ GeneratingIn(pages) = {1, 2} /\ runs[r].batch = {1, 2}
        /\ pages[3].status = "pending"

----------------------------------------------------------------------------
(* Two pages of one batch, each in its own withRetry call:                 *)
(* src/App.tsx 184-209 and src/services/gemini.ts 8-34, 98-119             *)
(*                                                                         *)
(* pair.frames   : the two withRetry calls; i and lastError are locals of  *)
(*                 the call (gemini.ts lines 9-10)                         *)
(* pair.status   : the status of the two pages                             *)
(* pair.imageUrl : their images                                            *)
(* pair.flag     : isGeneratingImagesRef.current                           *)
(* pair.error    : the error state                                         *)

Calls == 1..BATCH_SIZE

\* gemini.ts lines 9-10 with i and lastError at module level: every call
\* sees the last values written
OwnFrame_Shared(frames, c, f) ==
    [d \in DOMAIN frames |->
        IF d = c THEN f ELSE [frames[d] EXCEPT !.i = f.i, !.lastError = f.lastError]]

\* gemini.ts lines 9-10: lastError and i are declared inside withRetry, one
\* pair per call
OwnFrame(frames, c, f) == [frames EXCEPT ![c] = f]

\* gemini.ts lines 11-30: the frame after the invocation in flight settles
\* with outcome o
RtSettled(f, o) ==
    IF o.ok
    THEN [f EXCEPT !.pc = "returned", !.result = o.value]
    ELSE IF withRetryCatch(f.i, f.maxRetries, o.err) = "retry"
         THEN [f EXCEPT !.lastError = o.err, !.pc = "sleep", !.sleeps = @ + 1]
         ELSE [f EXCEPT !.lastError = o.err, !.pc = "thrown", !.thrown = o.err]

\* gemini.ts lines 112-118 returning a placeholder for a response without
\* image data
PairPageEnds_Placeholder(p, c, f) ==
    IF f.pc = "returned"
    THEN [p EXCEPT !.status[c] = "completed", !.imageUrl[c] = DataUri]
    ELSE [p EXCEPT
            !.status[c] = "failed",
            !.flag = IF BreakerMatches(f.thrown) THEN FALSE ELSE @,
            !.error = IF BreakerMatches(f.thrown) THEN handleErrorState(f.thrown) ELSE @]

\* gemini.ts lines 112-118 and App.tsx 186-208: what the callback of the
\* page does once its withRetry call is over
PairPageEnds(p, c, f) ==
    IF f.pc = "returned" /\ f.result = "image"
    THEN [p EXCEPT !.status[c] = "completed", !.imageUrl[c] = DataUri]
    ELSE LET err == IF f.pc = "returned" THEN NoImageDataError ELSE f.thrown
         IN  [p EXCEPT
                !.status[c] = "failed",
                !.flag = IF BreakerMatches(err) THEN FALSE ELSE @,
                !.error = IF BreakerMatches(err) THEN handleErrorState(err) ELSE @]

PairFrame == UNCHANGED <<retryVars, appVars, retryApp, turbo, studio, moreVars>>

\* the invocation of call c settles with outcome o
PairSettle(c, o) ==
    /\ pair.frames[c].pc = "await"
    /\ LET f == RtSettled(pair.frames[c], o)
           p == [pair EXCEPT !.frames = OwnFrame(@, c, f)]
       IN  pair' = IF f.pc = "sleep" THEN p ELSE PairPageEnds(p, c, f)
    /\ PairFrame

\* the backoff timer of call c fires
PairWake(c) ==
    /\ pair.frames[c].pc = "sleep"
    /\ LET f == RtLoop(pair.frames[c], pair.frames[c].i + 1)
           p == [pair EXCEPT !.frames = OwnFrame(@, c, f)]
       IN  pair' = IF f.pc = "await" THEN p ELSE PairPageEnds(p, c, f)
    /\ PairFrame

\* App.tsx 174-184: the batch's pages are generating and each page's
\* generateColoringPage has made its first invocation
PairInit ==
    /\ AppInit /\ rt = RtIdle /\ rtLog = <<>>
    /\ retryApp = RetryAppIdle /\ turbo = TurboIdle /\ studio = StudioIdle
    /\ MoreIdle
    /\ pair = [frames |-> [c \in Calls |-> RtCall(MaxRetriesBound)],
               status |-> [c \in Calls |-> "generating"],
               imageUrl |-> [c \in Calls |-> NoImage],
               flag |-> TRUE,
               error |-> NoError]

PairNext ==
    \/ \E c \in Calls, o \in Outcomes : PairSettle(c, o)
    \/ \E c \in Calls : PairWake(c)

SpecPair == PairInit /\ [][PairNext]_vars

\* call c takes a step
CallSteps(c) == pair'.frames[c] # pair.frames[c]

\* C20: withRetry keeps no state shared between calls: a step of one page's
\* call (an invocation settling, a retry, the call returning or throwing and
\* its page becoming completed or failed) leaves the other call's frame and
\* the other page as they are, whether or not the other call is asleep; and a
\* call asleep in its backoff is still asleep, with its counter and its
\* lastError, until its own timer fires.
C20_CallsIndependent ==
    [][\A c, d \in Calls :
          (c # d /\ CallSteps(c)) =>
              /\ pair'.frames[d] = pair.frames[d]
              /\ pair'.status[d] = pair.status[d]
              /\ pair'.imageUrl[d] = pair.imageUrl[d]]_vars

\* call 1 is in its first backoff sleep and its page is generating; call 2
\* was retried, has returned, and its page is completed
C20_Witness ==
    /\ pair.frames # <<>>
    /\ pair.frames[1].pc = "sleep" /\ pair.frames[1].sleeps = 1
    /\ pair.status[1] = "generating"
    /\ pair.frames[2].sleeps >= 1 /\ pair.frames[2].pc = "returned"
    /\ pair.status[2] = "completed"

\* as C20_Witness, but call 2 has used up its attempts and has thrown, and
\* its page is failed
C20_WitnessFailed ==
    /\ pair.frames # <<>>
    /\ pair.frames[1].pc = "sleep" /\ pair.frames[1].sleeps = 1
    /\ pair.status[1] = "generating"
    /\ pair.frames[2].sleeps = MaxRetriesBound - 1 /\ pair.frames[2].pc = "thrown"
    /\ pair.status[2] = "failed"

----------------------------------------------------------------------------
(* C21 *)

\* the run dispatches a batch in this step
Dispatches(r) == runs'[r].rounds > runs[r].rounds

\* the last page function of the run's batch settles in this step
BatchSettles(r) ==
    /\ runs[r].pc = "inflight"
    /\ \E k \in runs[r].batch : runs[r].call[k].pc = "await"
    /\ \A k \in runs[r].batch :
          k \in DOMAIN runs'[r].call => runs'[r].call[k].pc = "none"

\* C21: the step in which the last page of a batch settles dispatches nothing
\* and leaves the run in the pacing sleep of line 220; a batch after the first
\* is dispatched only by the step in which that sleep ends.
C21_PacingBetweenBatches ==
    [][\A r \in Runs :
          /\ BatchSettles(r) => (~Dispatches(r) /\ runs'[r].pc = "pacing")
          /\ (Dispatches(r) /\ runs[r].rounds >= 1) => runs[r].pc = "pacing"
      ]_vars

\* the first batch has settled, the third page is pending and the flag is
\* set: the run is in its pacing sleep
C21_Witness ==
    \E r \in Runs :
        /\ runs[r].pc = "pacing" /\ runs[r].rounds = 1
        /\ Len(Ptp(r)) = 3 /\ Ptp(r)[3].status = "pending"
        /\ isGeneratingImagesRef

\* the second batch, dispatched when the sleep ended
C21_WitnessDispatched ==
    \E r \in Runs :
        /\ runs[r].pc = "inflight" /\ runs[r].rounds = 2
        /\ runs[r].batch = {3} /\ runs[r].call[3].pc = "await"

----------------------------------------------------------------------------
(* The variant with BATCH_SIZE = 4, src/vite.config.ts 85-245              *)
(*                                                                         *)
(* quad.pages          : state.pages                                       *)
(* quad.view, step     : state.view, state.step                            *)
(* quad.flag           : isGeneratingImagesRef.current                     *)
(* quad.error          : line 88                                           *)
(* quad.cover          : coverPromise: "none", "inflight", "image",        *)
(*                       "failed"                                          *)
(* quad.pc             : processQueue: "idle", "inflight" (line 207),      *)
(*                       "awaitCover" (line 237), "done"                   *)
(* quad.pagesToProcess : the local of line 190                             *)
(* quad.batch          : the indices of the batch of line 193              *)
(* quad.inflight       : the batch's page functions that have not settled  *)
(* quad.log            : history, the batches dispatched, in order         *)
(* quad.cancelled      : history, navigate cleared the flag during the run *)
(* quad.breaker        : history, line 223 was reached                     *)

\* line 180
QUAD_BATCH_SIZE == 4

\* line 192
QuadLoopCondition(ptp, flag) == PendingIdx(ptp) # {} /\ flag

\* line 193 with the slice taken from the end of the pending pages
QuadSelectBatch_Last(ptp) ==
    {k \in PendingIdx(ptp) :
        Cardinality({j \in PendingIdx(ptp) : j > k}) < QUAD_BATCH_SIZE}

\* line 193
QuadSelectBatch(ptp) == FirstN(PendingIdx(ptp), QUAD_BATCH_SIZE)

\* lines 196-199, 201-205 (on either list)
QuadMarkGenerating(pgs, ids) ==
    [k \in DOMAIN pgs |->
        IF pgs[k].id \in ids THEN [pgs[k] EXCEPT !.status = "generating"] ELSE pgs[k]]

\* lines 210-215 (on either list; pagesToProcess keeps the status only)
QuadMarkCompleted(pgs, pageId, img) ==
    [k \in DOMAIN pgs |->
        IF pgs[k].id = pageId
        THEN [pgs[k] EXCEPT !.status = "completed", !.imageUrl = img] ELSE pgs[k]]

\* lines 218-220 (on either list)
QuadMarkFailed(pgs, pageId) ==
    [k \in DOMAIN pgs |->
        IF pgs[k].id = pageId THEN [pgs[k] EXCEPT !.status = "failed"] ELSE pgs[k]]

\* line 222
QuadBreakerMatches(err) ==
    \/ includes(JSON_stringify(err), "429")
    \/ includes(JSON_stringify(err), "RESOURCE_EXHAUSTED")

\* lines 106-125: the error it publishes; the test of line 113 reads
\* JSON.stringify(err) unless err is a string
QuadHandleError(err) ==
    [set |-> TRUE,
     isQuota |-> \/ includes(JSON_stringify(err), "RESOURCE_EXHAUSTED")
                 \/ includes(JSON_stringify(err), "429")
                 \/ includes(JSON_stringify(err), "quota")]

\* lines 239-244
QuadEnd(q) ==
    [q EXCEPT
       !.flag = FALSE,
       !.step = IF allDone(q.pages) /\ q.step = "generating" THEN "review" ELSE @,
       !.pc = "done"]

\* lines 192-207: the loop's test and, when it passes, one iteration up to
\* the await of Promise.all; line 237 when it fails
QuadLoopHead(q) ==
    IF QuadLoopCondition(q.pagesToProcess, q.flag)
    THEN LET batch == QuadSelectBatch(q.pagesToProcess)
             ids == {q.pagesToProcess[k].id : k \in batch}
         IN  [q EXCEPT
                !.pages = QuadMarkGenerating(@, ids),
                !.pagesToProcess = QuadMarkGenerating(@, ids),
                !.batch = batch,
                !.inflight = batch,
                !.log = Append(@, batch),
                !.pc = "inflight"]
    ELSE IF q.cover = "inflight"
         THEN [q EXCEPT !.pc = "awaitCover"]
         ELSE QuadEnd(q)

QuadFrame ==
    UNCHANGED <<retryVars, appVars, retryApp, turbo, studio, pair,
                rt1, ratio, exporter>>

\* the button of line 384: startImageGeneration, lines 169-177, and
\* processQueue up to its first await
QuadStartImageGeneration ==
    /\ quad.step = "planning"
    /\ quad.pc = "idle"
    /\ quad' = QuadLoopHead([quad EXCEPT
                               !.step = "generating",
                               !.flag = TRUE,
                               !.cover = "inflight",
                               !.pagesToProcess = quad.pages])
    /\ QuadFrame

\* the page function of page k settles: lines 208-227; after the last one of
\* the batch lines 229-234 and the loop's next iteration follow at once
QuadPageSettles(k, o) ==
    /\ quad.pc = "inflight"
    /\ k \in quad.inflight
    /\ LET success == o.ok /\ o.value = "image"
           err == IF o.ok THEN NoImageDataError ELSE o.err
           trips == ~success /\ QuadBreakerMatches(err)
           pageId == quad.pagesToProcess[k].id
           q == [quad EXCEPT
                   !.pages = IF success THEN QuadMarkCompleted(@, pageId, DataUri)
                             ELSE QuadMarkFailed(@, pageId),
                   !.pagesToProcess = IF success THEN QuadMarkCompleted(@, pageId, DataUri)
                                      ELSE QuadMarkFailed(@, pageId),
                   !.flag = IF trips THEN FALSE ELSE @,
                   !.error = IF trips THEN QuadHandleError(err) ELSE @,
                   !.breaker = @ \/ trips,
                   !.inflight = @ \ {k}]
       IN  quad' = IF q.inflight = {} THEN QuadLoopHead(q) ELSE q
    /\ QuadFrame

\* lines 184-188, and line 237 when the run waits for the cover
QuadCoverSettles(o) ==
    /\ quad.cover = "inflight"
    /\ LET q == [quad EXCEPT
                   !.cover = IF o.ok /\ o.value = "image" THEN "image" ELSE "failed"]
       IN  quad' = IF q.pc = "awaitCover" THEN QuadEnd(q) ELSE q
    /\ QuadFrame

\* navigate, lines 127-136
QuadNavigate(v) ==
    /\ quad.step # "input"
    /\ v # quad.view \/ v = "home"
    /\ quad' = IF v = "home"
               THEN [quad EXCEPT !.pages = <<>>, !.view = "home", !.step = "input",
                                 !.error = NoError]
               ELSE [quad EXCEPT !.view = v, !.error = NoError, !.flag = FALSE,
                                 !.cancelled = @ \/ (quad.flag /\ quad.pc = "inflight")]
    /\ QuadFrame

\* the state handleGeneratePlan leaves, lines 138-163: a plan of at least
\* one page (line 145), every page pending
QuadInit ==
    /\ AppInit /\ rt = RtIdle /\ rtLog = <<>>
    /\ retryApp = RetryAppIdle /\ turbo = TurboIdle
    /\ studio = StudioIdle /\ pair = PairIdle
    /\ rt1 = Rt1Idle /\ ratio = RatioIdle /\ exporter = ExporterIdle
    /\ \E n \in 1..QuadPages :
          quad = [QuadIdle EXCEPT
                    !.step = "planning",
                    !.pages = [k \in 1..n |-> GridPage(k, "pending")]]

QuadNext ==
    \/ QuadStartImageGeneration
    \/ \E k \in 1..QuadPages, o \in Outcomes : QuadPageSettles(k, o)
    \/ \E o \in Outcomes : QuadCoverSettles(o)
    \/ \E v \in NavTargets : QuadNavigate(v)

SpecQuad == QuadInit /\ [][QuadNext]_vars

\* ceil(n / 4)
QuadRounds(n) == (n + QUAD_BATCH_SIZE - 1) \div QUAD_BATCH_SIZE

Min(a, b) == IF a < b THEN a ELSE b

\* the pages round j is to dispatch out of n: the first min(4, remaining)
\* pending ones in list order
QuadRound(j, n) ==
    (QUAD_BATCH_SIZE * (j - 1) + 1) .. Min(QUAD_BATCH_SIZE * j, n)

QuadOver == quad.pc \in {"awaitCover", "done"}

\* C22: with BATCH_SIZE = 4 every round dispatches the first min(4, remaining)
\* pending pages in list order; a run of N pages that is not cancelled and
\* meets no quota error has made exactly ceil(N / 4) rounds when its loop is
\* over, and every page is then terminal.
C22_RoundsOfFour ==
    LET n == Len(quad.pagesToProcess)
    IN  /\ \A j \in DOMAIN quad.log : quad.log[j] = QuadRound(j, n)
        /\ (QuadOver /\ ~quad.cancelled /\ ~quad.breaker) =>
              /\ Len(quad.log) = QuadRounds(n)
              /\ \A k \in 1..n : quad.pagesToProcess[k].status \in Terminal
              /\ \A k \in DOMAIN quad.pages : quad.pages[k].status \in Terminal

\* a run of nine pages has ended after three rounds, of four, four and one
\* page; page 2 failed without tripping the breaker, page 9 completed
C22_Witness ==
    /\ quad.pc = "done" /\ ~quad.cancelled /\ ~quad.breaker
    /\ Len(quad.pagesToProcess) = 9 /\ Len(quad.pages) = 9
    /\ Len(quad.log) = 3 /\ quad.log[3] = {9}
    /\ quad.pages[2].status = "failed" /\ quad.pages[9].status = "completed"
    /\ quad.step = "review"

----------------------------------------------------------------------------
(* getClosestAspectRatio, src/services/gemini.ts 91-95                     *)
(*                                                                         *)
(* ratio.width, ratio.height : the arguments, in half inches (8.5 is 17)   *)
(* ratio.results             : the ids returned by the calls made so far   *)
(*                                                                         *)
(* A bucket's val is kept in ten-thousandths.  For height > 0 the test     *)
(* |curr.val - ratio| < |prev.val - ratio| is decided exactly by comparing *)
(* |val * height - 10000 * width|: within the bounds two distances that    *)
(* differ differ by far more than the rounding of the doubles, and the     *)
(* distances that are equal (ratio 0.875, 0.65625) are exact in binary.    *)
(* For height = 0 the ratio is Infinity or NaN and the test is false for   *)
(* every pair.                                                             *)

ValScale == 10000

\* line 93
supported ==
    << [id |-> "1:1", val |-> 10000], [id |-> "3:4", val |-> 7500],
       [id |-> "4:3", val |-> 13330], [id |-> "9:16", val |-> 5625],
       [id |-> "16:9", val |-> 17770] >>

Abs(x) == IF x < 0 THEN -x ELSE x

\* Math.abs(b.val - ratio), times height * 10000
Distance(b, width, height) == Abs(b.val * height - ValScale * width)

\* the test of line 94 with <= for <
Nearer_OrEqual(curr, prev, width, height) ==
    height # 0 /\ Distance(curr, width, height) <= Distance(prev, width, height)

\* the test of line 94
Nearer(curr, prev, width, height) ==
    height # 0 /\ Distance(curr, width, height) < Distance(prev, width, height)

\* Array.prototype.reduce without an initial value: the accumulator starts
\* as the first element
RECURSIVE reduce(_, _, _, _)
reduce(prev, rest, width, height) ==
    IF rest = <<>> THEN prev
    ELSE reduce(IF Nearer(Head(rest), prev, width, height) THEN Head(rest) ELSE prev,
                Tail(rest), width, height)

\* lines 91-95
getClosestAspectRatio(width, height) ==
    reduce(Head(supported), Tail(supported), width, height).id

RatioFrame ==
    UNCHANGED <<retryVars, appVars, retryApp, turbo, studio, pair,
                quad, rt1, exporter>>

\* one call with the arguments of the state
CallGetClosestAspectRatio ==
    /\ ratio.pc = "ready"
    /\ Len(ratio.results) < MaxRatioCalls
    /\ ratio' = [ratio EXCEPT
                   !.results = Append(@, getClosestAspectRatio(ratio.width, ratio.height))]
    /\ RatioFrame

RatioInit ==
    /\ AppInit /\ rt = RtIdle /\ rtLog = <<>>
    /\ retryApp = RetryAppIdle /\ turbo = TurboIdle
    /\ studio = StudioIdle /\ pair = PairIdle
    /\ quad = QuadIdle /\ rt1 = Rt1Idle /\ exporter = ExporterIdle
    /\ \E w \in 0..MaxHalfInches, h \in 0..MaxHalfInches :
          ratio = [width |-> w, height |-> h, results |-> <<>>, pc |-> "ready"]

RatioNext == CallGetClosestAspectRatio

SpecRatio == RatioInit /\ [][RatioNext]_vars

\* bucket k is the nearest of the buckets, the earliest among the nearest;
\* with height = 0 every bucket is as far as every other
IsNearest(k, width, height) ==
    LET d(j) == IF height = 0 THEN 0 ELSE Distance(supported[j], width, height)
    IN  /\ \A j \in DOMAIN supported : d(k) <= d(j)
        /\ \A j \in DOMAIN supported : j < k => d(j) > d(k)

\* C23: getClosestAspectRatio returns the id of the bucket whose value is
\* nearest to width / height, of equally near buckets the earliest; every
\* call with the same arguments returns the same id; (8.5, 11) gives 3:4.
C23_ClosestBucket ==
    \A n \in DOMAIN ratio.results :
        /\ \E k \in DOMAIN supported :
              /\ IsNearest(k, ratio.width, ratio.height)
              /\ ratio.results[n] = supported[k].id
        /\ ratio.results[n] = ratio.results[1]
        /\ (ratio.width = 17 /\ ratio.height = 22) => ratio.results[n] = "3:4"

\* 8.5 x 11 inches, called twice
C23_Witness ==
    /\ ratio.width = 17 /\ ratio.height = 22
    /\ ratio.results = <<"3:4", "3:4">>

\* 7 x 8 inches is as near to 1:1 as to 3:4: the earlier bucket is returned
C23_WitnessTie ==
    /\ ratio.width = 14 /\ ratio.height = 16
    /\ ratio.results = <<"1:1", "1:1">>

----------------------------------------------------------------------------
(* C24 *)

\* a handleGeneratePlan invocation ends in this step without creating a page:
\* generateBookPlan threw, or returned a plan without pages
PlanFails == planCalls' < planCalls /\ nPagesPlanned' = nPagesPlanned

----------------------------------------------------------------------------
(* C25 *)

\* the withRetry call of page c has returned a response with, without an
\* inline image part
GotImage(c) == pair.frames[c].pc = "returned" /\ pair.frames[c].result = "image"
GotNoImage(c) == pair.frames[c].pc = "returned" /\ pair.frames[c].result = "noimage"

\* C25: a page is completed, with the image payload, exactly when the
\* response of its call has an inline image part; a response without one
\* makes generateColoringPage throw, and the page is failed, without image.
C25_NoImageFails ==
    \A c \in DOMAIN pair.frames :
        /\ pair.status[c] = "completed" <=> GotImage(c)
        /\ pair.imageUrl[c] = DataUri <=> GotImage(c)
        /\ GotNoImage(c) => (pair.status[c] = "failed" /\ pair.imageUrl[c] = NoImage)

\* page 1 got a response without image data and is failed, the flag is
\* still set; page 2 got its image
C25_Witness ==
    /\ pair.frames # <<>>
    /\ GotNoImage(1) /\ pair.status[1] = "failed" /\ pair.imageUrl[1] = NoImage
    /\ GotImage(2) /\ pair.status[2] = "completed"
    /\ pair.flag

----------------------------------------------------------------------------
(* withRetry of src/unnamed/part_001, lines 13-43                          *)
(*                                                                         *)
(* rt1 is the frame of one call: retries, i, lastError, its position pc    *)
(* ("await", "sleep", "returned", "thrown"), and as history the number of  *)
(* backoff sleeps and the log of the outcomes of operation                 *)

\* HTTP 500 with its status text as message
ServerError500 == [kind |-> "Error", status |-> 500, hasMessage |-> TRUE,
                   message |-> {"Server Error"}]

Rt1Outcomes == Outcomes \cup {Fail(ServerError500)}

\* lines 23-30; error.message of a thrown string is undefined
Rt1IsOverloaded(err) ==
    \/ err.status = 503
    \/ /\ err.kind # "string" /\ err.hasMessage
       /\ \/ includes(err.message, "503")
          \/ includes(LowerText(err.message), "overloaded")
          \/ includes(LowerText(err.message), "server error")

\* lines 32-39
Rt1Catch(i, retries, err) ==
    IF Rt1IsOverloaded(err) /\ i < retries - 1 THEN "retry" ELSE "throw"

\* line 16, and line 42 when the loop is over
Rt1Loop(f, i) ==
    IF i < f.retries
    THEN [f EXCEPT !.i = i, !.pc = "await"]
    ELSE [f EXCEPT !.i = i, !.pc = "thrown", !.thrown = f.lastError]

Rt1Frame ==
    UNCHANGED <<retryVars, appVars, retryApp, turbo, studio, pair,
                quad, ratio, exporter>>

\* the invocation in flight settles with outcome o: lines 17-39
Rt1Settle(o) ==
    /\ rt1.pc = "await"
    /\ LET f == [rt1 EXCEPT !.log = Append(@, o)]
       IN  rt1' = IF o.ok
                  THEN [f EXCEPT !.pc = "returned", !.result = o.value]
                  ELSE IF Rt1Catch(f.i, f.retries, o.err) = "retry"
                       THEN [f EXCEPT !.lastError = o.err, !.pc = "sleep",
                                      !.sleeps = @ + 1]
                       ELSE [f EXCEPT !.lastError = o.err, !.pc = "thrown",
                                      !.thrown = o.err]
    /\ Rt1Frame

\* the timer of line 35 fires, continue, i++
Rt1Wake ==
    /\ rt1.pc = "sleep"
    /\ rt1' = Rt1Loop(rt1, rt1.i + 1)
    /\ Rt1Frame

\* a call with the default of line 13 or an explicit number of attempts
Rt1Init ==
    /\ AppInit /\ rt = RtIdle /\ rtLog = <<>>
    /\ retryApp = RetryAppIdle /\ turbo = TurboIdle
    /\ studio = StudioIdle /\ pair = PairIdle
    /\ quad = QuadIdle /\ ratio = RatioIdle /\ exporter = ExporterIdle
    /\ \E m \in 1..MaxRetriesBound :
          rt1 = Rt1Loop([Rt1Idle EXCEPT !.retries = m], 0)

Rt1Next ==
    \/ \E o \in Rt1Outcomes : Rt1Settle(o)
    \/ Rt1Wake

SpecRetry1 == Rt1Init /\ [][Rt1Next]_vars

\* an invocation fails in this step with a Rate-limited error while attempts
\* remain
RateLimitedWithAttempts ==
    /\ rt1.pc = "await"
    /\ Len(rt1'.log) = Len(rt1.log) + 1
    /\ FailedWith(rt1'.log[Len(rt1'.log)], RateLimitedShapes)
    /\ rt1.i < rt1.retries - 1

\* C26: in part_001, when operation fails with a Rate-limited error and
\* attempts remain, withRetry goes to its backoff sleep (and then invokes
\* operation again) instead of throwing.
C26_Part001RetriesRateLimited ==
    [][RateLimitedWithAttempts => rt1'.pc = "sleep"]_vars

----------------------------------------------------------------------------
(* C27 *)

\* the classes as the claim words them: by the status, or by the lower-cased
\* text of the failure
TextOf(err) == LowerText(err.message)
StatedRateLimited(err) ==
    err.status = 429 \/ "429" \in TextOf(err) \/ "quota" \in TextOf(err)
StatedOverloaded(err) ==
    err.status = 503 \/ "503" \in TextOf(err) \/ "overloaded" \in TextOf(err)
StatedOther(err) == ~StatedRateLimited(err) /\ ~StatedOverloaded(err)

\* invocation n failed and withRetry went on: it is in the backoff sleep
\* that follows, or has made the next invocation
Retried(n) == n < Len(rtLog) \/ (n = Len(rtLog) /\ rt.pc \in {"sleep", "await"})

C27_WitnessStatusAndText ==
    /\ rt.maxRetries = 3 /\ Len(rtLog) = 1 /\ rt.pc = "sleep"
    /\ rtLog[1].err = QuotaForbidden

----------------------------------------------------------------------------
(* handleDownloadZip, src/App.tsx 239-251, and generatePDF,                *)
(* src/types.ts 47-135                                                     *)
(*                                                                         *)
(* exporter.pages      : state.pages when the button is clicked; doneAt is *)
(*                       the rank of the page among the completed ones, by *)
(*                       time of completion (0: not completed)             *)
(* exporter.coverImage : state.coverImage                                  *)
(* exporter.zip        : the files added to the folder, in order           *)
(* exporter.pdf        : the sheets added to the document, in order        *)
(* exporter.zipped, printed : the export has been made                     *)

ExportStatuses == {"pending", "generating", "completed", "failed"}

\* a page of the list: completed pages have their image (gemini.ts 114)
ExportPage(k, status, doneAt) ==
    [id |-> k, status |-> status,
     imageUrl |-> IF status = "completed" THEN DataUri ELSE NoImage,
     doneAt |-> doneAt]

\* App.tsx line 245, types.ts line 90
Exported(page) == page.status = "completed" /\ page.imageUrl # NoImage

\* the number given to a page by the count of the pages exported before it
PageNumber_Running(index, done) == Len(done) + 1

\* App.tsx line 246 and types.ts line 131: index + 1
PageNumber(index, done) == index + 1

\* state.pages.forEach((page, index) => ...), App.tsx 244-248 and types.ts
\* 89-133; index counts from 0
RECURSIVE forEachPage(_, _, _)
forEachPage(pgs, index, done) ==
    IF index >= Len(pgs) THEN done
    ELSE forEachPage(pgs, index + 1,
             IF Exported(pgs[index + 1])
             THEN Append(done, [kind |-> "page",
                                number |-> PageNumber(index, done),
                                id |-> pgs[index + 1].id,
                                image |-> pgs[index + 1].imageUrl])
             ELSE done)

CoverEntry(cover) ==
    IF cover # NoCover THEN <<[kind |-> "cover", number |-> 0, id |-> 0, image |-> cover]>>
    ELSE <<>>

ExportFrame ==
    UNCHANGED <<retryVars, appVars, retryApp, turbo, studio, pair,
                quad, rt1, ratio>>

\* handleDownloadZip: the cover, line 243, then the pages
HandleDownloadZip ==
    /\ exporter.pc = "ready" /\ ~exporter.zipped
    /\ exporter' = [exporter EXCEPT
                      !.zip = forEachPage(exporter.pages, 0, CoverEntry(exporter.coverImage)),
                      !.zipped = TRUE]
    /\ ExportFrame

\* handleDownloadPDF, line 236: generatePDF; the title page, the cover
\* (lines 82-85), the pages, the metadata sheet
HandleDownloadPDF ==
    /\ exporter.pc = "ready" /\ ~exporter.printed
    /\ exporter' = [exporter EXCEPT
                      !.pdf = <<[kind |-> "title", number |-> 0, id |-> 0, image |-> NoImage]>>
                              \o forEachPage(exporter.pages, 0, CoverEntry(exporter.coverImage))
                              \o <<[kind |-> "metadata", number |-> 0, id |-> 0,
                                    image |-> NoImage]>>,
                      !.printed = TRUE]
    /\ ExportFrame

\* the completed pages of st are ranked 1..c by d, the others have rank 0
RankedCompletions(st, d) ==
    LET done == {k \in DOMAIN st : st[k] = "completed"}
    IN  /\ \A k \in DOMAIN st : k \notin done => d[k] = 0
        /\ {d[k] : k \in done} = 1..Cardinality(done)

ExportInit ==
    /\ AppInit /\ rt = RtIdle /\ rtLog = <<>>
    /\ retryApp = RetryAppIdle /\ turbo = TurboIdle
    /\ studio = StudioIdle /\ pair = PairIdle
    /\ quad = QuadIdle /\ rt1 = Rt1Idle /\ ratio = RatioIdle
    /\ \E n \in 1..GridPages :
          \E st \in [1..n -> ExportStatuses], d \in [1..n -> 0..n],
             cover \in {NoCover, DataUri} :
              /\ RankedCompletions(st, d)
              /\ exporter = [ExporterIdle EXCEPT
                               !.pages = [k \in 1..n |-> ExportPage(k, st[k], d[k])],
                               !.coverImage = cover,
                               !.pc = "ready"]

ExportNext == HandleDownloadZip \/ HandleDownloadPDF

SpecExport == ExportInit /\ [][ExportNext]_vars

PageEntries(out) == {n \in DOMAIN out : out[n].kind = "page"}

\* the output has one entry for each exported page and for no other, each
\* numbered by the position of its page in the list, in list order
ExactlyCompleted(out) ==
    /\ \A k \in DOMAIN exporter.pages :
          Exported(exporter.pages[k]) <=>
              \E n \in PageEntries(out) : out[n].id = exporter.pages[k].id
    /\ \A n \in PageEntries(out) :
          /\ out[n].number \in DOMAIN exporter.pages
          /\ exporter.pages[out[n].number].id = out[n].id
          /\ out[n].image = exporter.pages[out[n].number].imageUrl
    /\ \A n, m \in PageEntries(out) : n < m => out[n].number < out[m].number

\* C28: handleDownloadZip and generatePDF include exactly the pages that are
\* completed and have an image, skip the others, and number each included
\* page by its position in the page list, not by the order of completion.
C28_ExportsCompletedByPosition ==
    /\ exporter.zipped => ExactlyCompleted(exporter.zip)
    /\ exporter.printed => ExactlyCompleted(exporter.pdf)
    /\ ~exporter.zipped => exporter.zip = <<>>
    /\ ~exporter.printed => exporter.pdf = <<>>

\* page 1 failed, page 3 completed before page 2: both exports hold page 2
\* as number 2 and page 3 as number 3, and nothing of page 1
C28_Witness ==
    /\ exporter.zipped /\ exporter.printed
    /\ Len(exporter.pages) = 3
    /\ exporter.pages[1].status = "failed"
    /\ exporter.pages[2].doneAt = 2 /\ exporter.pages[3].doneAt = 1
    /\ exporter.coverImage = NoCover
    /\ Len(exporter.zip) = 2
    /\ exporter.zip[1].number = 2 /\ exporter.zip[2].number = 3
    /\ Len(exporter.pdf) = 4

----------------------------------------------------------------------------
(* C29 *)

\* the page list is changed in this step, and not by a new plan (lines
\* 129-133) nor by navigate('home') (line 99)
QueueUpdate ==
    /\ pages' # pages
    /\ nPagesPlanned' = nPagesPlanned
    /\ ~(step # "input" /\ step' = "input")

\* the ids of the batch of run r, before and after the step
TargetIds(r) ==
    {runs[r].pagesToProcess[k].id : k \in runs[r].batch}
    \cup {runs'[r].pagesToProcess[k].id : k \in runs'[r].batch}

\* C29: an update of the page list by processQueue keeps the list's length
\* and order and every page's id and prompt; it changes the status and the
\* imageUrl of pages of the run's batch only.
C29_UpdatesKeepTheList ==
    [][QueueUpdate =>
          /\ Len(pages') = Len(pages)
          /\ \A k \in DOMAIN pages :
                /\ pages'[k].id = pages[k].id
                /\ pages'[k].prompt = pages[k].prompt
                /\ pages'[k] # pages[k] =>
                      \E r \in Runs : pages[k].id \in TargetIds(r)
      ]_vars

\* the second page of the batch has failed while the first is still being
\* generated: the pages are in the order of the plan
C29_Witness ==
    \E r \in Runs :
        /\ Len(pages) = 3 /\ SameIds(r)
        /\ \A k \in 1..3 : pages[k].prompt = k
        /\ pages[1].status = "generating" /\ pages[2].status = "failed"
        /\ pages[3].status = "pending"

----------------------------------------------------------------------------
(* C30 *)

\* the cover promise of run r has settled before this step, or settles in it
\* (a run waiting at line 223 goes on only when the promise settles)
CoverSettledBy(r) ==
    \/ runs[r].cover = "settled"
    \/ runs[r].pc = "awaitCover" /\ runs[r].cover = "inflight"
                                 /\ runs'[r].cover # "inflight"

\* C30: processQueue evaluates the done condition (lines 225-233, the end of
\* the invocation) only when its cover promise has settled, a run waiting
\* for the cover does nothing else, and step moves to 'review' only in the
\* step in which a run ends.
C30_ReviewAfterCover ==
    [][/\ \A r \in Runs :
             /\ Ends(r) => CoverSettledBy(r)
             /\ (Exited(r) /\ runs'[r] # runs[r]) =>
                    (Ends(r) \/ runs'[r] = [runs[r] EXCEPT !.cancelled = TRUE])
       /\ (step # "review" /\ step' = "review") => \E r \in Runs : Ends(r)
      ]_vars

\* every page is terminal and the loop is over, but the cover call is in
\* flight: the run waits, the flag is still set and step is 'generating'
C30_Witness ==
    \E r \in Runs :
        /\ Exited(r) /\ runs[r].cover = "inflight"
        /\ Len(pages) = 3 /\ SameIds(r) /\ AllTerminal(pages)
        /\ step = "generating" /\ isGeneratingImagesRef

\* the cover has settled after the pages: step is 'review'
C30_WitnessReview ==
    /\ step = "review" /\ Len(pages) = 3 /\ AllTerminal(pages)
    /\ coverImage = DataUri /\ ~isGeneratingImagesRef
    /\ \E r \in Runs : runs[r].pc = "done"

----------------------------------------------------------------------------
(* C31: the safe/turbo queue under fair scheduling                          *)

\* line 177 to line 147 once the history counters turbo.round and
\* turbo.sent have reached MaxRounds: the same iteration as TurboPacingDone,
\* with the two counters left at their bound
TurboPacingAgain ==
    /\ turbo.pc = "sleep"
    /\ TurboLoopCondition(turbo.pagesToProcess, turbo.flag)
    /\ turbo.round = MaxRounds
    /\ turbo' = [TurboLoopHead(turbo) EXCEPT !.round = turbo.round,
                                             !.sent = turbo.sent]
    /\ TurboFrame

TurboFairNext == TurboNext \/ TurboPacingAgain

\* every remote call settles (the promises of lines 141, 157 and 112) and
\* the timer of line 177 fires
TurboFairness ==
    /\ \A k \in GridIdx : WF_vars(\E o \in Outcomes : TurboPageSettles(k, o))
    /\ \A k \in GridIdx : WF_vars(\E o \in Outcomes : TurboRetrySettles(k, o))
    /\ WF_vars(\E o \in Outcomes : TurboCoverSettles(o))
    /\ WF_vars(TurboPacingDone \/ TurboPacingAgain)

SpecTurboFair == TurboInit /\ [][TurboFairNext]_vars /\ TurboFairness

\* line 165 has not run: while processQueue is in its loop the flag is set
TurboNoTrip == turbo.pc \in {"batch", "sleep"} => turbo.flag

\* lines 180-185 have run and moved the book to the review
TurboReviewed ==
    /\ turbo.pc = "done"
    /\ turbo.step = "review"
    /\ allDone(turbo.pages)

\* C31: when every remote call settles and no failure trips the quota
\* breaker, a started processQueue eventually leaves its loop and the step
\* becomes review with every page completed or failed.
C31_QueueReachesReview ==
    ([]TurboNoTrip) => ((turbo.pc = "batch") ~> TurboReviewed)

----------------------------------------------------------------------------
(* C32 *)

\* run r is in the while loop of lines 170-221 before and after the step
StaysInLoop(r) == InLoop(r) /\ runs'[r].pc \in {"inflight", "pacing"}

\* this step clears isGeneratingImagesRef.current (lines 94, 103, 206, 225)
\* while run r stays in its loop with a pending page and its own breaker
\* (line 204) has not matched: the test of line 170 will stop the run
StoppedFromOutside(r) ==
    /\ isGeneratingImagesRef /\ ~isGeneratingImagesRef'
    /\ StaysInLoop(r)
    /\ PendingIdx(runs'[r].pagesToProcess) # {}
    /\ ~runs'[r].breaker

\* C32: a run of processQueue stops dispatching only for want of a pending
\* page, by its own circuit breaker, or because the user navigated to
\* another view; nothing else clears the flag of a run in its loop, the end
\* of another run of processQueue included.
C32_OnlyOwnStop ==
    [][\A r \in Runs : StoppedFromOutside(r) => view' # "home"]_vars

----------------------------------------------------------------------------
(* C33 *)

\* C33: once navigate has been called during a run of processQueue, for any
\* target view, home included, the run sends no further page to
\* generateColoringPage: no step dispatches a batch of a run that has seen a
\* navigation.
C33_NoDispatchAfterNavigate ==
    [][\A r \in Runs : Dispatches(r) => ~runs[r].navigated]_vars

----------------------------------------------------------------------------
(* C34: the studio's batch button alone, pressed up to MaxRestarts times   *)

StudioRestartNext ==
    \/ HandleGenerateAllPagesUpTo(MaxRestarts)
    \/ \E b \in 1..MaxRestarts, o \in Outcomes : BatchPageSettles(b, o)
    \/ \E b \in 1..MaxRestarts : BatchWake(b)
    \/ StopBatch

SpecStudioRestart == StudioInit /\ [][StudioRestartNext]_vars

\* the loop b of handleGenerateAllPages calls generateSinglePage in this
\* step (line 170)
BatchIssues(b) ==
    /\ b \in DOMAIN studio'.batches
    /\ studio'.batches[b].pc = "await"
    /\ \/ b \notin DOMAIN studio.batches
       \/ studio.batches[b].pc # "await"

\* the generateColoringPage requests in flight for page k: that of the
\* page's own button and those of the loops waiting at line 170 for it
RequestsInFlight(k) ==
    (IF studio.singles[k] = "await" THEN 1 ELSE 0)
    + Cardinality({b \in DOMAIN studio.batches :
                      /\ studio.batches[b].pc = "await"
                      /\ studio.batches[b].pendingPages[studio.batches[b].i]
                            = studio.pages[k].id})

\* C34: after stopBatch the loop of handleGenerateAllPages that was running
\* calls generateSinglePage no more, also when handleGenerateAllPages is
\* started again before the loop's request in flight settles; and no page
\* ever has two generation requests in flight.
C34_StoppedLoopIsSilent ==
    /\ [][\A b \in 1..MaxRestarts :
             (b \in DOMAIN studio.batches /\ BatchIssues(b))
                 => ~studio.batches[b].stopped]_vars
    /\ [](\A k \in DOMAIN studio.pages : RequestsInFlight(k) <= 1)

----------------------------------------------------------------------------
(* C35 *)

\* the page the loop b is at
CurrentPage(bt) == bt.pendingPages[bt.i]

StudioIdx(pageId) == CHOOSE k \in DOMAIN studio.pages : studio.pages[k].id = pageId

\* the await of line 170 of loop b returns in this step
BatchCallReturns(b) ==
    /\ b \in DOMAIN studio.batches
    /\ studio.batches[b].pc = "await"
    /\ studio'.batches[b].pc # "await"

\* the loop b takes a step: it starts, its call returns or its delay ends
BatchSteps(b) ==
    /\ b \in DOMAIN studio'.batches
    /\ \/ b \notin DOMAIN studio.batches
       \/ studio'.batches[b].pc # studio.batches[b].pc

\* the pages whose status or image the step changes
Touched ==
    {k \in DOMAIN studio.pages : studio'.pages[k] # studio.pages[k]}

\* C35: handleGenerateAllPages stops at the first page whose generation
\* fails, whatever the error: the page is failed, an error is published, the
\* loop has ended and does nothing more; a step of the loop changes no page
\* but the one it is at, so the pages after the failed one are as the loop
\* found them.
C35_StopsAtFirstFailure ==
    [][\A b \in 1..MaxBatches :
          /\ BatchCallReturns(b) =>
                LET k == StudioIdx(CurrentPage(studio.batches[b]))
                IN  /\ studio'.pages[k].status \in {"completed", "failed"}
                    /\ studio'.pages[k].status = "failed" =>
                          /\ studio'.batches[b].pc = "done"
                          /\ studio'.error.set
                          /\ ~studio'.isBatchGenerating
                    /\ studio'.pages[k].status = "completed" =>
                          studio'.batches[b].pc = "sleep"
          /\ BatchSteps(b) =>
                /\ Touched \subseteq {StudioIdx(CurrentPage(studio'.batches[b]))}
                /\ b \in DOMAIN studio.batches =>
                      studio'.batches[b].i >= studio.batches[b].i
          /\ (b \in DOMAIN studio.batches /\ studio.batches[b].pc = "done") =>
                studio'.batches[b] = studio.batches[b]
      ]_vars

\* the loop completed page 1 and failed on page 2 with an error that is not
\* a quota error: it has ended, page 3 is still pending
C35_Witness ==
    /\ Len(studio.batches) = 1
    /\ studio.batches[1].pc = "done" /\ studio.batches[1].i = 2
    /\ studio.batches[1].pendingPages = <<studio.pages[1].id, studio.pages[2].id,
                                          studio.pages[3].id>>
    /\ studio.pages[1].status = "completed"
    /\ studio.pages[2].status = "failed"
    /\ studio.pages[3].status = "pending"
    /\ studio.error.set /\ ~studio.error.isQuota
    /\ ~studio.isBatchGenerating

\* the same for a quota error
C35_WitnessQuota ==
    /\ Len(studio.batches) = 1
    /\ studio.batches[1].pc = "done" /\ studio.batches[1].i = 1
    /\ studio.pages[1].status = "failed"
    /\ studio.pages[2].status = "pending"
    /\ studio.pages[3].status = "pending"
    /\ studio.error.set /\ studio.error.isQuota

----------------------------------------------------------------------------
(* C36 *)

\* the failure is of the class Rate-limited or Overloaded
RetryableShape(err) == err \in RateLimitedShapes \cup OverloadedShapes

\* the invocations of operation made so far
Invocations == Len(rtLog) + (IF rt.pc = "await" THEN 1 ELSE 0)

\* C36: withRetry sleeps only after a retryable failure while attempts
\* remain; exactly one sleep separates two consecutive invocations of
\* operation, and no sleep precedes the throw of a failure to the caller.
C36_OneSleepBetweenInvocations ==
    /\ rt.pc = "await" => rt.sleeps = Invocations - 1
    /\ rt.pc = "sleep" =>
          /\ rt.sleeps = Invocations
          /\ ~rtLog[Len(rtLog)].ok
          /\ RetryableShape(rtLog[Len(rtLog)].err)
          /\ rt.i < rt.maxRetries - 1
    /\ (rt.pc \in {"returned", "thrown"} /\ Invocations > 0) =>
          rt.sleeps = Invocations - 1
    /\ (rt.pc = "thrown" /\ Invocations = 0) => rt.sleeps = 0

\* three invocations failed with retryable errors: two sleeps, and the third
\* failure is thrown without a third
C36_Witness ==
    /\ rt.maxRetries = 3 /\ rt.pc = "thrown" /\ Len(rtLog) = 3
    /\ \A n \in 1..3 : ~rtLog[n].ok /\ RetryableShape(rtLog[n].err)
    /\ rt.sleeps = 2

\* a failure of the class Other on the second invocation is thrown after the
\* one sleep that preceded the invocation
C36_WitnessOther ==
    /\ rt.maxRetries = 3 /\ rt.pc = "thrown" /\ Len(rtLog) = 2
    /\ ~rtLog[1].ok /\ RetryableShape(rtLog[1].err)
    /\ ~rtLog[2].ok /\ rtLog[2].err \in OtherShapes
    /\ rt.sleeps = 1

----------------------------------------------------------------------------
(* C37 *)

\* the circuit breaker of run r fires in this step (lines 204-207)
BreakerFires(r) == ~runs[r].breaker /\ runs'[r].breaker

\* the requests of run r that are in flight
AwaitedIdx(r) == {k \in DOMAIN runs[r].call : runs[r].call[k].pc = "await"}

\* the request of page k of run r settles in this step
CallSettles(r, k) ==
    /\ k \in AwaitedIdx(r)
    /\ k \in DOMAIN runs'[r].call
    /\ runs'[r].call[k].pc = "none"

\* the React state holds for the page of id what the queue's list holds for
\* page k of run r, with the image when it is completed
OutcomeRecorded(r, k) ==
    LET p == runs'[r].pagesToProcess[k]
    IN  /\ p.status \in {"completed", "failed"}
        /\ \A n \in DOMAIN pages' :
              pages'[n].id = p.id =>
                  /\ pages'[n].status = p.status
                  /\ p.status = "completed" => pages'[n].imageUrl = DataUri

\* C37: when a quota failure of one page trips the circuit breaker, the other
\* requests of the batch stay in flight; each of them settles and records its
\* own outcome, completed with its image or failed, and the run does not end
\* while one of them is in flight.
C37_BatchSettlesAfterBreaker ==
    [][\A r \in Runs :
          /\ BreakerFires(r) =>
                /\ Cardinality(AwaitedIdx(r) \ {k \in AwaitedIdx(r) : CallSettles(r, k)})
                      = Cardinality(AwaitedIdx(r)) - 1
                /\ runs'[r].pc = "inflight" <=>
                      Cardinality(AwaitedIdx(r)) > 1
          /\ \A k \in AwaitedIdx(r) :
                (runs[r].breaker /\ CallSettles(r, k)) => OutcomeRecorded(r, k)
          /\ (runs[r].breaker /\ runs'[r].pc # "inflight") =>
                \A k \in AwaitedIdx(r) : CallSettles(r, k)
      ]_vars

\* page 1 failed with a quota error and tripped the breaker; the request of
\* page 2 is still in flight
C37_Witness ==
    \E r \in Runs :
        /\ runs[r].breaker /\ runs[r].pc = "inflight"
        /\ runs[r].pagesToProcess[1].status = "failed"
        /\ runs[r].call[2].pc = "await"
        /\ ~isGeneratingImagesRef /\ error.isQuota

\* the batch has settled after the breaker fired: page 1 failed, page 2
\* completed with its image, page 3 was never sent
C37_WitnessSettled ==
    \E r \in Runs :
        /\ runs[r].breaker /\ runs[r].pc = "pacing"
        /\ Len(pages) = 3
        /\ pages[1].status = "failed"
        /\ pages[2].status = "completed" /\ pages[2].imageUrl = DataUri
        /\ pages[3].status = "pending"

----------------------------------------------------------------------------
(* C38 *)

\* the delay of the sleep after the failed attempt i, in units of
\* 1 / DelayScale ms
DelayAfter(i) == rt.delays[i + 1].base + rt.delays[i + 1].jitter

\* C38: the backoff delay after the failed attempt i (from 0) is at least
\* initialDelay * 1.5^i and less than initialDelay * 1.5^i + 1000 ms; with
\* initialDelay > 0 its deterministic part grows strictly from one attempt to
\* the next.
C38_BackoffBounds ==
    /\ Len(rt.delays) = rt.sleeps
    /\ \A i \in 0..(Len(rt.delays) - 1) :
          /\ DelayAfter(i) * (2 ^ i) >= rt.initialDelay * (3 ^ i) * DelayScale
          /\ DelayAfter(i) * (2 ^ i)
                < (rt.initialDelay * (3 ^ i) + 1000 * (2 ^ i)) * DelayScale
          /\ rt.delays[i + 1].base * (2 ^ i) = rt.initialDelay * (3 ^ i) * DelayScale
    /\ rt.initialDelay > 0 =>
          \A i \in 1..(Len(rt.delays) - 1) :
              rt.delays[i + 1].base > rt.delays[i].base

\* a call with the default initialDelay slept twice: 3000 ms and the least
\* jitter, then 4500 ms and the greatest jitter
C38_Witness ==
    /\ rt.initialDelay = DefaultInitialDelay
    /\ Len(rt.delays) = 2
    /\ rt.delays[1] = [base |-> 3000 * DelayScale, jitter |-> 0]
    /\ rt.delays[2] = [base |-> 4500 * DelayScale,
                       jitter |-> 1000 * DelayScale - 1]

====
